---- MODULE Spec2Model ----
(***************************************************************************)
(* Model of the storage synchronization layer of forgesteel.               *)
(*                                                                         *)
(* Part 1: the sync coordinator, the React hook useGoogleDriveSync of      *)
(* src/src/hooks/use-google-drive-sync.ts.                                 *)
(*                                                                         *)
(* A step of the model is one task of the single-threaded event loop: a    *)
(* call of one of the hook's functions, a browser event, the expiry of a   *)
(* timer, or the continuation of performSync after `await onSync()`.  The  *)
(* re-render that follows a state change and the effects of that render    *)
(* belong to the step that caused them.                                    *)
(*                                                                         *)
(* performSync is memoised on [enabled, isOnline, debounceMs]: a timer     *)
(* callback calls the performSync of the render in which the timer was     *)
(* armed, so every timer carries the `enabled` and `isOnline` that its     *)
(* performSync closed over.  Refs are shared by all renders.               *)
(*                                                                         *)
(* Part 2: the storage backends: StorageServiceFactory and                 *)
(* GoogleDriveService of src/unnamed/part_001, with GoogleDriveClient and  *)
(* GoogleAuthService of src/src/service/google.                            *)
(*                                                                         *)
(* A step of Part 2 is the part of an async method between two awaits of   *)
(* a remote call: the call of get or put up to its first remote request,   *)
(* and the continuation after each response.  A string is the sequence of  *)
(* its pieces, so that a template literal is a concatenation.              *)
(***************************************************************************)
EXTENDS Integers, FiniteSets, Sequences, Bags, TLC

\* ------------------------------------------------------------------ bounds
MaxSyncs == 2        \* calls of the sync function in a behaviour of Spec
MaxTicks == 1        \* advances of the clock in a behaviour of Spec
MaxSteadySyncs == 3  \* the same two bounds for SpecSteady
MaxSteadyTicks == 3
MaxReconnectSyncs == 2  \* and for SpecReconnect
MaxReconnectTicks == 2
MaxRetrySyncs == 2      \* and for SpecRetry
MaxRetryTicks == 1
MaxCalls == 2           \* calls of get and put in a behaviour of SpecDrive
MaxDriveTicks == 1      \* advances of the clock in a behaviour of SpecDrive
MaxServiceCalls == 2    \* calls of the service in a behaviour of SpecService
MaxServiceTicks == 1    \* advances of the clock in a behaviour of SpecService
MaxDisconnects == 2     \* clicks on Disconnect in a behaviour of SpecDisconnect

\* ------------------------------------------------------- program constants
DebounceMs == 2000  \* debounceMs, the option's default
SettleMs == 100     \* the delay of the back-online timer

\* null: a message that is absent; a nullable instant or timer handle is
\* the empty set, or the set of the one value it holds.
Null == "null"
None == {}
Some(x) == {x}
SyncFailedMessage == "Sync failed"

\* What onSync can reject with: an Error carrying a message, or a value
\* that is not an Error (a thrown string or plain object) carrying one.
ErrorMessages == {"quota", "network"}
Failures == [isError : BOOLEAN, message : ErrorMessages]

DriveSyncStatus == {"idle", "syncing", "synced", "error", "offline"}

\* The instants the clock can show after at most n advances: it advances by
\* one of the two delays.
Delays == {SettleMs, DebounceMs}
TimePoints(n) ==
  {p[1] * SettleMs + p[2] * DebounceMs :
     p \in {q \in (0..n) \X (0..n) : q[1] + q[2] <= n}}

VARIABLES
  status,              \* state.status
  lastSyncTime,        \* state.lastSyncTime: None or Some(instant)
  error,               \* state.error: Null or a message
  pendingChanges,      \* state.pendingChanges
  isOnline,            \* the isOnline state
  enabled,             \* options.enabled
  onSync,              \* onSyncRef.current is a function
  onError,             \* onErrorRef.current is a function
  debounceTimerRef,    \* debounceTimerRef.current: None or Some(timer)
  isSyncingRef,        \* isSyncingRef.current
  pendingAfterSyncRef, \* pendingAfterSyncRef.current
  timers,              \* the browser's armed timers (a bag)
  inFlight,            \* calls of onSync whose promise has not settled
  onSyncCalls,         \* calls of onSync so far
  onErrorCalls,        \* calls of onError so far
  now,                 \* the clock
  \* History variables; they record what happened and steer nothing.
  \* SpecSteady maintains them, Spec leaves them at their initial values.
  burstOpen,           \* a burst of triggerSync() calls is being followed
  burstSyncs,          \* calls of onSync since that burst began
  burstLastCall,       \* the instant of the burst's latest triggerSync()
  flightClean,         \* the sync in flight began with no timer armed and
                       \* no rerun recorded
  flightArrivals,      \* triggerSync() or forceSync() was called during it
  flightChanged,       \* triggerSync() was called while a sync was in
                       \* flight, and no sync has started since
  requested,           \* triggerSync() or forceSync() was called since the
                       \* latest call of onSync
  rerunWatch,          \* a sync with such arrivals has completed, and no
                       \* triggerSync() or forceSync() was called since
  rerunSyncs,          \* calls of onSync since that completion
  \* History variables that SpecReconnect maintains.
  resumeWatch,         \* connectivity returned with changes pending, and
                       \* neither triggerSync() nor forceSync() was called
                       \* and connectivity was not lost since
  resumeSynced,        \* onSync was called since connectivity returned
  \* History variables that SpecRetry maintains.
  failWatch,           \* a sync failed with no timer armed, and since then
                       \* neither triggerSync() nor forceSync() was called
                       \* and connectivity did not return with changes
                       \* pending
  failReenabled,       \* the coordinator was enabled anew since that failure
  failSynced           \* onSync was called since that failure

VARIABLES
  settings,            \* the ConnectionSettings given to the factory, which
                       \* the drive service keeps as this.settings
  service,             \* the variant the factory returned, "none" before
  client,              \* this.client: None or Some(its accessToken)
  fileCache,           \* this.fileCache: the own properties of the object
  files,               \* the files of the remote drive
  calls,               \* the calls of get and put: their position and locals
  callsStarted,        \* calls of get and put so far
  onTokenRefresh,      \* this.onTokenRefresh is a function
  \* History variables of Part 2.
  lastPut,             \* per key, the value of its latest successful put
  overwritten          \* the keys whose file a put of another key wrote
                       \* after their latest successful put

\* Part 3: GoogleAuthService and the GoogleDriveConnect panel.
VARIABLES
  library,             \* window.google.accounts.oauth2 exists in the page
  isGisLoaded,         \* GoogleAuthService.isGisLoaded
  disconnects,         \* the runs of handleDisconnect: position and locals
  revokes,             \* the tokens given to oauth2.revoke so far (a bag)
  onDisconnectCalls    \* calls of the onDisconnect prop so far

panelVars ==
  <<library, isGisLoaded, disconnects, revokes, onDisconnectCalls>>

driveVars ==
  <<settings, service, client, fileCache, files, calls, callsStarted,
    onTokenRefresh, lastPut, overwritten>>

stateVars == <<status, lastSyncTime, error, pendingChanges>>
refVars == <<debounceTimerRef, isSyncingRef, pendingAfterSyncRef>>
optionVars == <<enabled, onSync, onError>>
hookVars ==
  <<status, lastSyncTime, error, pendingChanges, isOnline, enabled, onSync,
    onError, debounceTimerRef, isSyncingRef, pendingAfterSyncRef, timers,
    inFlight, onSyncCalls, onErrorCalls, now>>
historyVars ==
  <<burstOpen, burstSyncs, burstLastCall, flightClean, flightArrivals,
    flightChanged, requested, rerunWatch, rerunSyncs>>
resumeVars == <<resumeWatch, resumeSynced>>
retryVars == <<failWatch, failReenabled, failSynced>>
vars ==
  <<status, lastSyncTime, error, pendingChanges, isOnline, enabled, onSync,
    onError, debounceTimerRef, isSyncingRef, pendingAfterSyncRef, timers,
    inFlight, onSyncCalls, onErrorCalls, now, burstOpen, burstSyncs,
    burstLastCall, flightClean, flightArrivals, flightChanged, requested,
    rerunWatch,
    rerunSyncs,
    resumeWatch, resumeSynced, failWatch, failReenabled, failSynced,
    settings, service, client, fileCache, files, calls, callsStarted,
    onTokenRefresh, lastPut, overwritten, library, isGisLoaded, disconnects,
    revokes, onDisconnectCalls>>

\* ------------------------------------------------------ Part 2: the data

\* ConnectionSettings: the fields the backends read.  A nullable string is
\* Null, the empty string or a string; the expiry is None or Some(instant).
FolderIds == {Null, "", "folder-a"}
AccessTokens == {Null, "", "token-1"}
RefreshedToken == "token-2"

\* 5 * 60 * 1000: the margin of isTokenExpired.
TokenMarginMs == 300000
\* expires_in of a token response, in seconds: a token of four minutes,
\* which is inside the margin as soon as it is issued, and a token of one
\* hour.
ExpiresIn == {240, 3600}
\* The clock advances by a second between two steps.
DriveDelay == 1000
\* The expiry of the stored token, the clock starting at 0: none, exactly
\* the margin ahead, and ten minutes ahead.
Expiries == {None, Some(TokenMarginMs), Some(10 * 60 * 1000)}

ConnectionSettings ==
  [useWarehouse : BOOLEAN, useGoogleDrive : BOOLEAN,
   googleDriveFolderId : FolderIds, googleDriveAccessToken : AccessTokens,
   googleDriveTokenExpiry : Expiries]

defaultConnectionSettings ==
  [useWarehouse |-> FALSE, useGoogleDrive |-> FALSE,
   googleDriveFolderId |-> Null, googleDriveAccessToken |-> Null,
   googleDriveTokenExpiry |-> None]

\* The truthiness of a nullable string: null and "" are falsy.
Truthy(str) == str # Null /\ str # ""

\* IsTokenExpired counting a token with exactly the margin left as expired.
IsTokenExpired_Inclusive(expiresAt, t) ==
  \/ expiresAt = None
  \/ \E e \in expiresAt : t >= e - TokenMarginMs

\* GoogleAuthService.isTokenExpired(expiresAt) at the instant t.  The
\* instants of the model are positive, so `!expiresAt` is `expiresAt === null`.
IsTokenExpired(expiresAt, t) ==
  \/ expiresAt = None
  \/ \E e \in expiresAt : t > e - TokenMarginMs

\* FILE_NAME_MAP
FILE_NAME_MAP ==
  ("forgesteel-heroes" :> <<"forgesteel-heroes", ".json">>) @@
  ("forgesteel-homebrew-settings" :> <<"forgesteel-homebrew", ".json">>) @@
  ("forgesteel-session" :> <<"forgesteel-session", ".json">>) @@
  ("forgesteel-options" :> <<"forgesteel-options", ".json">>) @@
  ("forgesteel-hidden-setting-ids" :> <<"forgesteel-hidden-ids", ".json">>)

\* What every object literal inherits from Object.prototype: obj[name] is
\* the inherited (truthy) value when obj has no own property of that name.
\* Here the property constructor, the function Object, written as a name
\* of one piece.
ObjectPrototype ==
  ("constructor" :> <<"function Object() { [native code] }">>)

\* The keys get and put are called with: a key of the table, two keys
\* that are not in it, one of them sharing its file name with the first,
\* and the name of an inherited property.
Keys ==
  {"forgesteel-homebrew-settings", "forgesteel-homebrew", "custom-key",
   "constructor"}

\* getFileName(key): FILE_NAME_MAP[key] || `${key}.json`
GetFileName(key) ==
  IF key \in DOMAIN FILE_NAME_MAP THEN FILE_NAME_MAP[key]
  ELSE IF key \in DOMAIN ObjectPrototype THEN ObjectPrototype[key]
  ELSE <<key, ".json">>

\* The values put is called with: objects of one numeric property, which
\* is a finite number or NaN.
Number(n) == [type |-> "number", n |-> n]
NaN == [type |-> "NaN", n |-> 0]
JsNull == [type |-> "null", n |-> 0]
Values == {[level |-> Number(1)], [level |-> NaN]}

\* The decimal numerals of the numbers in use.
Numerals == <<"0", "1", "2">>

\* JSON.stringify(value, null, 2): the pieces of the text.  A number that
\* is not finite is written as null.
JsonStringify(value) ==
  <<"{", "level", ":",
    IF value.level.type = "number" THEN Numerals[value.level.n + 1] ELSE "null",
    "}">>

\* response.json(): the value the text denotes.
JsonParse(text) ==
  [level |-> IF text[4] = "null" THEN JsNull
             ELSE Number(CHOOSE n \in 0..(Len(Numerals) - 1) :
                           Numerals[n + 1] = text[4])]

\* A value that JSON renders without loss.
IsJsonValue(value) == value.level.type = "number"

\* The calls of get and put that can be open at once.
CallIds == {1, 2}

NoValue == [level |-> JsNull]
Pending == [kind |-> "pending", value |-> NoValue]
NullResult == [kind |-> "null", value |-> NoValue]
ErrorResult == [kind |-> "error", value |-> NoValue]
ValueResult(value) == [kind |-> "value", value |-> value]
\* A Date (the call's field `date` has its instant), an Invalid Date, and
\* the two booleans.
DateResult == [kind |-> "date", value |-> NoValue]
InvalidDateResult == [kind |-> "invalid date", value |-> NoValue]
BoolResult(b) == [kind |-> IF b THEN "true" ELSE "false", value |-> NoValue]

\* A call of get or put: its position, arguments and locals, and a record
\* of the remote calls it made.
IdleCall ==
  [pc |-> "idle", op |-> "none", key |-> "none", value |-> NoValue,
   fileName |-> <<>>, after |-> "none", fileId |-> None,
   remainingAtStart |-> None, expiredAtStart |-> FALSE,
   absentAtStart |-> FALSE, refreshes |-> 0, refreshed |-> 0, finds |-> 0,
   reads |-> 0, writes |-> 0, notified |-> 0, persisted |-> None,
   response |-> "none", date |-> None, failure |-> "none",
   result |-> Pending]

\* The service not built: the values of the variables of Part 2 in the
\* specifications of Part 1.
ServiceUnused ==
  /\ settings = defaultConnectionSettings
  /\ service = "none"
  /\ client = None
  /\ fileCache = [k \in Keys |-> None]
  /\ files = {}
  /\ calls = [c \in CallIds |-> IdleCall]
  /\ callsStarted = 0
  /\ onTokenRefresh = FALSE
  /\ lastPut = [k \in Keys |-> None]
  /\ overwritten = {}

\* The runs of handleDisconnect, and one not begun.
DisconnectIds == 1..MaxDisconnects
IdleDisconnect ==
  [pc |-> "idle", token |-> Null, flagAtStart |-> FALSE,
   libraryAtStart |-> FALSE, revoked |-> FALSE, response |-> "none",
   signOut |-> "none", notified |-> 0]

\* No panel is shown and the auth service was not used: the values of the
\* variables of Part 3 in the specifications of Parts 1 and 2.
PanelUnused ==
  /\ library = FALSE
  /\ isGisLoaded = FALSE
  /\ disconnects = [d \in DisconnectIds |-> IdleDisconnect]
  /\ revokes = EmptyBag
  /\ onDisconnectCalls = 0

\* StorageServiceFactory.fromConnectionSettings with the drive variant
\* ahead of the warehouse variant.
FromConnectionSettings_DriveFirst(s) ==
  IF s.useGoogleDrive /\ Truthy(s.googleDriveFolderId)
       /\ Truthy(s.googleDriveAccessToken)
  THEN "drive"
  ELSE IF s.useWarehouse THEN "warehouse"
  ELSE "local"

\* StorageServiceFactory.fromConnectionSettings(settings): the variant.
FromConnectionSettings(s) ==
  IF s.useWarehouse THEN "warehouse"
  ELSE IF s.useGoogleDrive /\ Truthy(s.googleDriveFolderId)
            /\ Truthy(s.googleDriveAccessToken)
  THEN "drive"
  ELSE "local"

\* ------------------------------------------------------------------ timers

\* setTimeout(cb, delay) called from a render whose performSync closed over
\* cEnabled and cOnline.
Timer(kind, delay, cEnabled, cOnline) ==
  [kind |-> kind, due |-> now + delay, enabled |-> cEnabled, online |-> cOnline]

Armed(kind) == {t \in BagToSet(timers) : t.kind = kind}

NumArmed(kind) ==
  LET ts == Armed(kind)
      RECURSIVE Sum(_)
      Sum(S) == IF S = {} THEN 0
                ELSE LET t == CHOOSE x \in S : TRUE
                     IN CopiesIn(t, timers) + Sum(S \ {t})
  IN Sum(ts)

\* clearTimeout(h): disarms the timer h names, if it has not fired.
ClearTimeout(bag, h) ==
  IF h # None /\ \A t \in h : BagIn(t, bag) THEN bag (-) SetToBag(h) ELSE bag

\* All timers of one kind disarmed.
Without(bag, kind) ==
  LET keep == {t \in BagToSet(bag) : t.kind # kind}
  IN [t \in keep |-> bag[t]]

\* ------------------------------------------------------------- performSync

\* PerformSync without its single-flight guard.
PerformSync_Unguarded(cEnabled, cOnline) ==
  IF ~cEnabled \/ ~onSync \/ ~cOnline
  THEN UNCHANGED <<status, error, isSyncingRef, pendingAfterSyncRef,
                   inFlight, onSyncCalls>>
  ELSE /\ isSyncingRef' = TRUE
       /\ status' = "syncing"
       /\ error' = Null
       /\ inFlight' = inFlight + 1
       /\ onSyncCalls' = onSyncCalls + 1
       /\ UNCHANGED pendingAfterSyncRef

\* performSync() up to its await: the closure's enabled and isOnline, the
\* current onSyncRef, the single-flight guard, then the call of onSync.
PerformSync(cEnabled, cOnline) ==
  IF ~cEnabled \/ ~onSync \/ ~cOnline
  THEN UNCHANGED <<status, error, isSyncingRef, pendingAfterSyncRef,
                   inFlight, onSyncCalls>>
  ELSE IF isSyncingRef
  THEN /\ pendingAfterSyncRef' = TRUE
       /\ UNCHANGED <<status, error, isSyncingRef, inFlight, onSyncCalls>>
  ELSE /\ isSyncingRef' = TRUE
       /\ status' = "syncing"
       /\ error' = Null
       /\ inFlight' = inFlight + 1
       /\ onSyncCalls' = onSyncCalls + 1
       /\ UNCHANGED pendingAfterSyncRef

\* SyncSucceeds recording no time of the sync.
SyncSucceeds_NoTimestamp ==
  /\ inFlight > 0
  /\ status' = "synced"
  /\ pendingChanges' = FALSE
  /\ error' = Null
  /\ IF pendingAfterSyncRef
     THEN /\ pendingAfterSyncRef' = FALSE
          /\ timers' = timers (+) SetToBag({Timer("rerun", DebounceMs, TRUE, TRUE)})
     ELSE UNCHANGED <<pendingAfterSyncRef, timers>>
  /\ isSyncingRef' = FALSE
  /\ inFlight' = inFlight - 1
  /\ UNCHANGED <<lastSyncTime, isOnline, optionVars, debounceTimerRef,
                 onSyncCalls, onErrorCalls, now>>

\* SyncSucceeds leaving pendingChanges as it is.
SyncSucceeds_KeepsPending ==
  /\ inFlight > 0
  /\ status' = "synced"
  /\ lastSyncTime' = Some(now)
  /\ error' = Null
  /\ IF pendingAfterSyncRef
     THEN /\ pendingAfterSyncRef' = FALSE
          /\ timers' = timers (+) SetToBag({Timer("rerun", DebounceMs, TRUE, TRUE)})
     ELSE UNCHANGED <<pendingAfterSyncRef, timers>>
  /\ isSyncingRef' = FALSE
  /\ inFlight' = inFlight - 1
  /\ UNCHANGED <<pendingChanges, isOnline, optionVars, debounceTimerRef,
                 onSyncCalls, onErrorCalls, now>>

\* performSync after onSync resolved.
SyncSucceeds ==
  /\ inFlight > 0
  /\ status' = "synced"
  /\ lastSyncTime' = Some(now)
  /\ pendingChanges' = FALSE
  /\ error' = Null
  /\ IF pendingAfterSyncRef
     THEN /\ pendingAfterSyncRef' = FALSE
          /\ timers' = timers (+) SetToBag({Timer("rerun", DebounceMs, TRUE, TRUE)})
     ELSE UNCHANGED <<pendingAfterSyncRef, timers>>
  /\ isSyncingRef' = FALSE
  /\ inFlight' = inFlight - 1
  /\ UNCHANGED <<isOnline, optionVars, debounceTimerRef, onSyncCalls,
                 onErrorCalls, now>>

\* SyncFails arming a timer that retries the sync.
SyncFails_Retries(f) ==
  /\ inFlight > 0
  /\ status' = "error"
  /\ error' = IF f.isError THEN f.message ELSE SyncFailedMessage
  /\ onErrorCalls' = IF onError /\ f.isError THEN onErrorCalls + 1 ELSE onErrorCalls
  /\ isSyncingRef' = FALSE
  /\ inFlight' = inFlight - 1
  /\ timers' = timers (+) SetToBag({Timer("rerun", DebounceMs, TRUE, TRUE)})
  /\ UNCHANGED <<lastSyncTime, pendingChanges, isOnline, optionVars,
                 debounceTimerRef, pendingAfterSyncRef, onSyncCalls, now>>

\* SyncFails clearing pendingChanges, as the success path does.
SyncFails_ClearsPending(f) ==
  /\ inFlight > 0
  /\ status' = "error"
  /\ error' = IF f.isError THEN f.message ELSE SyncFailedMessage
  /\ onErrorCalls' = IF onError /\ f.isError THEN onErrorCalls + 1 ELSE onErrorCalls
  /\ pendingChanges' = FALSE
  /\ isSyncingRef' = FALSE
  /\ inFlight' = inFlight - 1
  /\ UNCHANGED <<lastSyncTime, isOnline, optionVars, debounceTimerRef,
                 pendingAfterSyncRef, timers, onSyncCalls, now>>

\* performSync after onSync rejected with f.
SyncFails(f) ==
  /\ inFlight > 0
  /\ status' = "error"
  /\ error' = IF f.isError THEN f.message ELSE SyncFailedMessage
  /\ onErrorCalls' = IF onError /\ f.isError THEN onErrorCalls + 1 ELSE onErrorCalls
  /\ isSyncingRef' = FALSE
  /\ inFlight' = inFlight - 1
  /\ UNCHANGED <<lastSyncTime, pendingChanges, isOnline, optionVars,
                 debounceTimerRef, pendingAfterSyncRef, timers, onSyncCalls, now>>

\* ------------------------------------------------------ the hook's functions

\* TriggerSync without its test of enabled.
TriggerSync_Ungated ==
  LET t == Timer("debounce", DebounceMs, enabled, isOnline) IN
  /\ pendingChanges' = TRUE
  /\ status' = IF status = "synced" THEN "idle" ELSE status
  /\ timers' = ClearTimeout(timers, debounceTimerRef) (+) SetToBag({t})
  /\ debounceTimerRef' = Some(t)
  /\ UNCHANGED <<lastSyncTime, error, isOnline, optionVars, isSyncingRef,
                 pendingAfterSyncRef, inFlight, onSyncCalls, onErrorCalls, now>>

\* TriggerSync arming a timer without clearing the one armed before.
TriggerSync_KeepsOldTimer ==
  IF ~enabled THEN UNCHANGED hookVars
  ELSE
    LET t == Timer("debounce", DebounceMs, enabled, isOnline) IN
    /\ pendingChanges' = TRUE
    /\ status' = IF status = "synced" THEN "idle" ELSE status
    /\ timers' = timers (+) SetToBag({t})
    /\ debounceTimerRef' = Some(t)
    /\ UNCHANGED <<lastSyncTime, error, isOnline, optionVars, isSyncingRef,
                   pendingAfterSyncRef, inFlight, onSyncCalls, onErrorCalls, now>>

\* TriggerSync demoting every settled status, error included, to idle.
TriggerSync_DemotesError ==
  IF ~enabled THEN UNCHANGED hookVars
  ELSE
    LET t == Timer("debounce", DebounceMs, enabled, isOnline) IN
    /\ pendingChanges' = TRUE
    /\ status' = IF status \in {"synced", "error"} THEN "idle" ELSE status
    /\ timers' = ClearTimeout(timers, debounceTimerRef) (+) SetToBag({t})
    /\ debounceTimerRef' = Some(t)
    /\ UNCHANGED <<lastSyncTime, error, isOnline, optionVars, isSyncingRef,
                   pendingAfterSyncRef, inFlight, onSyncCalls, onErrorCalls, now>>

\* triggerSync(): the state update, then the timer cleared and armed anew.
TriggerSync ==
  IF ~enabled THEN UNCHANGED hookVars
  ELSE
    LET t == Timer("debounce", DebounceMs, enabled, isOnline) IN
    /\ pendingChanges' = TRUE
    /\ status' = IF status = "synced" THEN "idle" ELSE status
    /\ timers' = ClearTimeout(timers, debounceTimerRef) (+) SetToBag({t})
    /\ debounceTimerRef' = Some(t)
    /\ UNCHANGED <<lastSyncTime, error, isOnline, optionVars, isSyncingRef,
                   pendingAfterSyncRef, inFlight, onSyncCalls, onErrorCalls, now>>

\* ForceSync dropping the handle without clearing the timer.
ForceSync_KeepsTimer ==
  IF ~enabled THEN UNCHANGED hookVars
  ELSE
    /\ UNCHANGED timers
    /\ debounceTimerRef' = None
    /\ PerformSync(enabled, isOnline)
    /\ UNCHANGED <<lastSyncTime, pendingChanges, isOnline, optionVars,
                   onErrorCalls, now>>

\* forceSync(): the timer cleared, then performSync() of the current render.
ForceSync ==
  IF ~enabled THEN UNCHANGED hookVars
  ELSE
    /\ timers' = ClearTimeout(timers, debounceTimerRef)
    /\ debounceTimerRef' = None
    /\ PerformSync(enabled, isOnline)
    /\ UNCHANGED <<lastSyncTime, pendingChanges, isOnline, optionVars,
                   onErrorCalls, now>>

\* CancelPendingSync giving up the sync in flight as well.
CancelPendingSync_Aborts ==
  /\ timers' = ClearTimeout(timers, debounceTimerRef)
  /\ debounceTimerRef' = None
  /\ pendingChanges' = FALSE
  /\ isSyncingRef' = FALSE
  /\ inFlight' = 0
  /\ UNCHANGED <<status, lastSyncTime, error, isOnline, optionVars,
                 pendingAfterSyncRef, onSyncCalls, onErrorCalls, now>>

\* CancelPendingSync dropping the handle without clearing the timer.
CancelPendingSync_KeepsTimer ==
  /\ UNCHANGED timers
  /\ debounceTimerRef' = None
  /\ pendingChanges' = FALSE
  /\ UNCHANGED <<status, lastSyncTime, error, isOnline, optionVars,
                 isSyncingRef, pendingAfterSyncRef, inFlight, onSyncCalls,
                 onErrorCalls, now>>

\* cancelPendingSync(): the timer cleared and pendingChanges reset.
CancelPendingSync ==
  /\ timers' = ClearTimeout(timers, debounceTimerRef)
  /\ debounceTimerRef' = None
  /\ pendingChanges' = FALSE
  /\ UNCHANGED <<status, lastSyncTime, error, isOnline, optionVars,
                 isSyncingRef, pendingAfterSyncRef, inFlight, onSyncCalls,
                 onErrorCalls, now>>

\* ------------------------------------------------------------ timer expiry

FireDebounce(t) ==
  /\ t.kind = "debounce"
  /\ BagIn(t, timers)
  /\ now >= t.due
  /\ timers' = timers (-) SetToBag({t})
  /\ PerformSync(t.enabled, t.online)
  /\ UNCHANGED <<lastSyncTime, pendingChanges, isOnline, optionVars,
                 debounceTimerRef, onErrorCalls, now>>

FireRerun(t) ==
  /\ t.kind = "rerun"
  /\ BagIn(t, timers)
  /\ now >= t.due
  /\ timers' = timers (-) SetToBag({t})
  /\ PerformSync(t.enabled, t.online)
  /\ UNCHANGED <<lastSyncTime, pendingChanges, isOnline, optionVars,
                 debounceTimerRef, onErrorCalls, now>>

FireSettle(t) ==
  /\ t.kind = "settle"
  /\ BagIn(t, timers)
  /\ now >= t.due
  /\ timers' = timers (-) SetToBag({t})
  /\ IF pendingChanges
     THEN PerformSync(t.enabled, t.online)
     ELSE UNCHANGED <<status, error, isSyncingRef, pendingAfterSyncRef,
                      inFlight, onSyncCalls>>
  /\ UNCHANGED <<lastSyncTime, pendingChanges, isOnline, optionVars,
                 debounceTimerRef, onErrorCalls, now>>

\* ------------------------------------------------- renders and their effects

\* The effect on [isOnline, enabled]: its cleanup disarms the timer of the
\* previous run, then it arms a new one when online, enabled and pending.
SettleEffect(bag, online, en) ==
  LET cleared == Without(bag, "settle") IN
  IF online /\ pendingChanges /\ en
  THEN cleared (+) SetToBag({Timer("settle", SettleMs, en, online)})
  ELSE cleared

\* GoOffline leaving the status of a sync in flight alone.
GoOffline_KeepsSyncing ==
  /\ isOnline
  /\ isOnline' = FALSE
  /\ status' = IF status \notin {"offline", "syncing"} THEN "offline" ELSE status
  /\ timers' = SettleEffect(timers, FALSE, enabled)
  /\ UNCHANGED <<lastSyncTime, error, pendingChanges, optionVars, refVars,
                 inFlight, onSyncCalls, onErrorCalls, now>>

\* The offline event: isOnline becomes false, and the effects of the render.
GoOffline ==
  /\ isOnline
  /\ isOnline' = FALSE
  /\ status' = IF status # "offline" THEN "offline" ELSE status
  /\ timers' = SettleEffect(timers, FALSE, enabled)
  /\ UNCHANGED <<lastSyncTime, error, pendingChanges, optionVars, refVars,
                 inFlight, onSyncCalls, onErrorCalls, now>>

\* GoOnline restoring synced whether or not changes are pending.
GoOnline_RestoresSynced ==
  /\ ~isOnline
  /\ isOnline' = TRUE
  /\ status' = IF status = "offline" THEN "synced" ELSE status
  /\ timers' = SettleEffect(timers, TRUE, enabled)
  /\ UNCHANGED <<lastSyncTime, error, pendingChanges, optionVars, refVars,
                 inFlight, onSyncCalls, onErrorCalls, now>>

\* The online event: isOnline becomes true, and the effects of the render.
GoOnline ==
  /\ ~isOnline
  /\ isOnline' = TRUE
  /\ status' = IF status = "offline"
               THEN (IF pendingChanges THEN "idle" ELSE "synced")
               ELSE status
  /\ timers' = SettleEffect(timers, TRUE, enabled)
  /\ UNCHANGED <<lastSyncTime, error, pendingChanges, optionVars, refVars,
                 inFlight, onSyncCalls, onErrorCalls, now>>

\* The host renders the hook with other options.
SetOptions(en, sync, err) ==
  /\ <<en, sync, err>> # <<enabled, onSync, onError>>
  /\ enabled' = en
  /\ onSync' = sync
  /\ onError' = err
  /\ timers' = IF en # enabled THEN SettleEffect(timers, isOnline, en) ELSE timers
  /\ UNCHANGED <<stateVars, isOnline, refVars, inFlight, onSyncCalls,
                 onErrorCalls, now>>

\* The clock advances.
Tick(d) ==
  /\ now' = now + d
  /\ UNCHANGED <<stateVars, isOnline, optionVars, refVars, timers, inFlight,
                 onSyncCalls, onErrorCalls>>

\* ------------------------------------------------------------ specification

\* The hook after its first render and the effects of that render.
HookInit ==
  /\ isOnline \in BOOLEAN
  /\ status = IF isOnline THEN "idle" ELSE "offline"
  /\ lastSyncTime = None
  /\ error = Null
  /\ pendingChanges = FALSE
  /\ enabled \in BOOLEAN
  /\ onSync \in BOOLEAN
  /\ onError \in BOOLEAN
  /\ debounceTimerRef = None
  /\ isSyncingRef = FALSE
  /\ pendingAfterSyncRef = FALSE
  /\ timers = EmptyBag
  /\ inFlight = 0
  /\ onSyncCalls = 0
  /\ onErrorCalls = 0
  /\ now = 0

HistoryInit ==
  /\ burstOpen = FALSE
  /\ burstSyncs = 0
  /\ burstLastCall = 0
  /\ flightClean = FALSE
  /\ flightArrivals = FALSE
  /\ flightChanged = FALSE
  /\ requested = FALSE
  /\ rerunWatch = FALSE
  /\ rerunSyncs = 0
  /\ resumeWatch = FALSE
  /\ resumeSynced = FALSE
  /\ failWatch = FALSE
  /\ failReenabled = FALSE
  /\ failSynced = FALSE

Init == HookInit /\ HistoryInit /\ ServiceUnused /\ PanelUnused

\* The bounds of Spec.
SpecTimePoints == TimePoints(MaxTicks)
Bounded ==
  /\ onSyncCalls' <= MaxSyncs
  /\ now' \in SpecTimePoints
  /\ UNCHANGED <<historyVars, resumeVars, retryVars, driveVars, panelVars>>

Next ==
  \/ TriggerSync /\ Bounded
  \/ ForceSync /\ Bounded
  \/ CancelPendingSync /\ Bounded
  \/ \E t \in BagToSet(timers) : FireDebounce(t) /\ Bounded
  \/ \E t \in BagToSet(timers) : FireRerun(t) /\ Bounded
  \/ \E t \in BagToSet(timers) : FireSettle(t) /\ Bounded
  \/ SyncSucceeds /\ Bounded
  \/ \E f \in Failures : SyncFails(f) /\ Bounded
  \/ GoOffline /\ Bounded
  \/ GoOnline /\ Bounded
  \/ \E en \in BOOLEAN, sync \in BOOLEAN, err \in BOOLEAN :
       SetOptions(en, sync, err) /\ Bounded
  \/ \E d \in Delays : Tick(d) /\ Bounded

Spec == Init /\ [][Next]_vars

TypeOK ==
  /\ status \in DriveSyncStatus
  /\ lastSyncTime \in {Some(t) : t \in SpecTimePoints} \cup {None}
  /\ error \in ErrorMessages \cup {SyncFailedMessage, Null}
  /\ pendingChanges \in BOOLEAN
  /\ inFlight \in 0..MaxSyncs
  /\ onSyncCalls \in 0..MaxSyncs
  /\ now \in SpecTimePoints

\* ------------------------------------------------------------- SpecSteady
\* The coordinator enabled, online and with a sync function registered
\* throughout, driven by triggerSync(), forceSync(), timer expiries and the
\* completions of onSync; the history variables follow what happens.

SteadyInit ==
  /\ HookInit
  /\ enabled /\ isOnline /\ onSync
  /\ HistoryInit
  /\ ServiceUnused
  /\ PanelUnused

SteadyTimePoints == TimePoints(MaxSteadyTicks)
SteadyBounded ==
  /\ onSyncCalls' <= MaxSteadySyncs
  /\ now' \in SteadyTimePoints
  /\ UNCHANGED <<resumeVars, retryVars, driveVars, panelVars>>

\* A step in which onSync is called.
Started == inFlight' = inFlight + 1

\* History at a call of onSync.
HistoryAtStart ==
  /\ flightClean' = (timers' = EmptyBag /\ ~pendingAfterSyncRef)
  /\ flightArrivals' = FALSE
  /\ flightChanged' = FALSE
  /\ requested' = FALSE
  /\ burstSyncs' = IF burstOpen THEN burstSyncs + 1 ELSE burstSyncs
  /\ rerunSyncs' = IF rerunWatch THEN rerunSyncs + 1 ELSE rerunSyncs

SteadyTrigger ==
  /\ TriggerSync
  /\ SteadyBounded
  \* A burst begins with nothing in flight and no timer armed; a call with
  \* nothing in flight and the burst's timer still armed continues it.
  /\ burstOpen' = (inFlight = 0 /\ (timers = EmptyBag \/ (burstOpen /\ burstSyncs = 0)))
  /\ burstSyncs' = 0
  /\ burstLastCall' = now
  /\ flightArrivals' = (flightArrivals \/ inFlight > 0)
  /\ flightChanged' = (flightChanged \/ inFlight > 0)
  /\ requested' = TRUE
  /\ rerunWatch' = FALSE
  /\ rerunSyncs' = 0
  /\ UNCHANGED flightClean

SteadyForce ==
  /\ ForceSync
  /\ SteadyBounded
  /\ burstOpen' = FALSE
  /\ rerunWatch' = FALSE
  /\ IF Started
     THEN HistoryAtStart
     ELSE /\ flightArrivals' = (flightArrivals \/ inFlight > 0)
          /\ requested' = TRUE
          /\ UNCHANGED <<flightClean, flightChanged, burstSyncs, rerunSyncs>>
  /\ UNCHANGED burstLastCall

SteadyFire(t) ==
  /\ FireDebounce(t) \/ FireRerun(t)
  /\ SteadyBounded
  /\ IF Started
     THEN HistoryAtStart
     ELSE UNCHANGED <<flightClean, flightArrivals, flightChanged, requested,
                      burstSyncs, rerunSyncs>>
  /\ UNCHANGED <<burstOpen, burstLastCall, rerunWatch>>

\* History at the completion of the sync in flight.
HistoryAtCompletion ==
  /\ rerunWatch' = IF flightClean /\ flightArrivals THEN TRUE ELSE rerunWatch
  /\ rerunSyncs' = IF flightClean /\ flightArrivals THEN 0 ELSE rerunSyncs
  /\ UNCHANGED <<burstOpen, burstSyncs, burstLastCall, flightClean,
                 flightArrivals, flightChanged, requested>>

SteadySucceeds ==
  /\ SyncSucceeds
  /\ SteadyBounded
  /\ HistoryAtCompletion

SteadyFails(f) ==
  /\ SyncFails(f)
  /\ SteadyBounded
  /\ HistoryAtCompletion

SteadyTick(d) ==
  /\ Tick(d)
  /\ SteadyBounded
  /\ UNCHANGED historyVars

SteadyNext ==
  \/ SteadyTrigger
  \/ SteadyForce
  \/ \E t \in BagToSet(timers) : SteadyFire(t)
  \/ SteadySucceeds
  \/ \E f \in Failures : SteadyFails(f)
  \/ \E d \in Delays : SteadyTick(d)

SpecSteady == SteadyInit /\ [][SteadyNext]_vars

\* ---------------------------------------------------------- SpecReconnect
\* The coordinator enabled and with a sync function registered throughout,
\* losing and regaining connectivity.  Once connectivity has returned with
\* changes pending, the host calls neither triggerSync() nor forceSync() nor
\* cancelPendingSync(), and connectivity stays.  The clock advances only
\* while a timer is waiting for it.  The browser fires a timer that is due,
\* lets time pass while one is armed, and the promise of onSync settles.

ReconnectInit ==
  /\ HookInit
  /\ enabled /\ isOnline /\ onSync
  /\ HistoryInit
  /\ ServiceUnused
  /\ PanelUnused

ReconnectTimePoints == TimePoints(MaxReconnectTicks)
ReconnectBounded ==
  /\ onSyncCalls' <= MaxReconnectSyncs
  /\ now' \in ReconnectTimePoints
  /\ UNCHANGED <<historyVars, retryVars, driveVars, panelVars>>

\* The bounds leave no room for a further call of onSync or for a further
\* advance of the clock.
ReconnectExhausted ==
  \/ onSyncCalls >= MaxReconnectSyncs
  \/ \A d \in Delays : now + d \notin ReconnectTimePoints

HistoryAtResumedStart ==
  /\ resumeSynced' = (resumeSynced \/ (resumeWatch /\ Started))
  /\ UNCHANGED resumeWatch

ReconnectTrigger ==
  /\ ~resumeWatch
  /\ TriggerSync
  /\ ReconnectBounded
  /\ UNCHANGED resumeVars

ReconnectForce ==
  /\ ~resumeWatch
  /\ ForceSync
  /\ ReconnectBounded
  /\ UNCHANGED resumeVars

ReconnectCancel ==
  /\ ~resumeWatch
  /\ CancelPendingSync
  /\ ReconnectBounded
  /\ UNCHANGED resumeVars

ReconnectOffline ==
  /\ ~resumeWatch
  /\ GoOffline
  /\ ReconnectBounded
  /\ UNCHANGED resumeVars

ReconnectOnline ==
  /\ GoOnline
  /\ ReconnectBounded
  /\ resumeWatch' = pendingChanges
  /\ resumeSynced' = FALSE

ReconnectFire(t) ==
  /\ FireDebounce(t) \/ FireRerun(t) \/ FireSettle(t)
  /\ ReconnectBounded
  /\ HistoryAtResumedStart

ReconnectSucceeds ==
  /\ SyncSucceeds
  /\ ReconnectBounded
  /\ UNCHANGED resumeVars

ReconnectFails(f) ==
  /\ SyncFails(f)
  /\ ReconnectBounded
  /\ UNCHANGED resumeVars

ReconnectTick(d) ==
  /\ \E t \in BagToSet(timers) : t.due > now
  /\ Tick(d)
  /\ ReconnectBounded
  /\ UNCHANGED resumeVars

ReconnectHost ==
  \/ ReconnectTrigger
  \/ ReconnectForce
  \/ ReconnectCancel
  \/ ReconnectOffline
  \/ ReconnectOnline

ReconnectFires == \E t \in BagToSet(timers) : ReconnectFire(t)
ReconnectSettles == ReconnectSucceeds \/ \E f \in Failures : ReconnectFails(f)
ReconnectTicks == \E d \in Delays : ReconnectTick(d)

ReconnectNext ==
  \/ ReconnectHost
  \/ ReconnectFires
  \/ ReconnectSettles
  \/ ReconnectTicks

SpecReconnect ==
  /\ ReconnectInit
  /\ [][ReconnectNext]_vars
  /\ WF_vars(ReconnectFires)
  /\ WF_vars(ReconnectSettles)
  /\ WF_vars(ReconnectTicks)

\* -------------------------------------------------------------- SpecRetry
\* The hook with a sync function registered throughout, its host enabling
\* and disabling it, with a record of what followed a failed sync.

RetryInit == Init /\ onSync

RetryTimePoints == TimePoints(MaxRetryTicks)
RetryBounded ==
  /\ onSyncCalls' <= MaxRetrySyncs
  /\ now' \in RetryTimePoints
  /\ UNCHANGED <<historyVars, resumeVars, driveVars, panelVars>>

HistoryAtRetryStart ==
  /\ failSynced' = (failSynced \/ (failWatch /\ Started))
  /\ UNCHANGED <<failWatch, failReenabled>>

RetryTrigger ==
  /\ TriggerSync
  /\ RetryBounded
  /\ failWatch' = FALSE
  /\ UNCHANGED <<failReenabled, failSynced>>

RetryForce ==
  /\ ForceSync
  /\ RetryBounded
  /\ failWatch' = FALSE
  /\ UNCHANGED <<failReenabled, failSynced>>

RetryCancel ==
  /\ CancelPendingSync
  /\ RetryBounded
  /\ UNCHANGED retryVars

RetryFire(t) ==
  /\ FireDebounce(t) \/ FireRerun(t) \/ FireSettle(t)
  /\ RetryBounded
  /\ HistoryAtRetryStart

RetrySucceeds ==
  /\ SyncSucceeds
  /\ RetryBounded
  /\ UNCHANGED retryVars

RetryFails(f) ==
  /\ SyncFails(f)
  /\ RetryBounded
  /\ IF timers = EmptyBag
     THEN failWatch' = TRUE /\ failReenabled' = FALSE /\ failSynced' = FALSE
     ELSE UNCHANGED retryVars

RetryOffline ==
  /\ GoOffline
  /\ RetryBounded
  /\ UNCHANGED retryVars

RetryOnline ==
  /\ GoOnline
  /\ RetryBounded
  /\ failWatch' = (failWatch /\ ~pendingChanges)
  /\ UNCHANGED <<failReenabled, failSynced>>

RetrySetOptions(en) ==
  /\ SetOptions(en, onSync, onError)
  /\ RetryBounded
  /\ failReenabled' = (failReenabled \/ (failWatch /\ en /\ ~enabled))
  /\ UNCHANGED <<failWatch, failSynced>>

RetryTick(d) ==
  /\ Tick(d)
  /\ RetryBounded
  /\ UNCHANGED retryVars

RetryNext ==
  \/ RetryTrigger
  \/ RetryForce
  \/ RetryCancel
  \/ \E t \in BagToSet(timers) : RetryFire(t)
  \/ RetrySucceeds
  \/ \E f \in Failures : RetryFails(f)
  \/ RetryOffline
  \/ RetryOnline
  \/ \E en \in BOOLEAN : RetrySetOptions(en)
  \/ \E d \in Delays : RetryTick(d)

SpecRetry == RetryInit /\ [][RetryNext]_vars

\* ------------------------------------------- Part 2: GoogleDriveService

\* this.fileCache[key] is truthy: an own property, or an inherited one.
HasCacheEntry(key) == fileCache[key] # None \/ key \in DOMAIN ObjectPrototype

\* this.fileCache[key].fileId and .modifiedTime: undefined (None) on an
\* inherited value.
CachedFileId(key) == {e.fileId : e \in fileCache[key]}
CachedModifiedTime(key) == {e.modifiedTime : e \in fileCache[key]}

\* What getFileInfo resolves with: null, or a DriveFile with its id and
\* modifiedTime.
NoFile == [found |-> FALSE, id |-> None, modifiedTime |-> None]
FileInfo(id, modifiedTime) ==
  [found |-> TRUE, id |-> id, modifiedTime |-> modifiedTime]

\* The files findFile(name, folderId) can answer with.
Matches(name, folderId) ==
  {f \in files : f.name = name /\ f.folderId = folderId}

\* The name the drive gives a file created with the metadata
\* JSON.stringify({name, parents, mimeType}): a name that is a function is
\* left out of the text.
CreatedName(name) ==
  IF \E k \in DOMAIN ObjectPrototype : ObjectPrototype[k] = name
  THEN <<"Untitled">>
  ELSE name

\* An awaited call throws: get and put throw it on, getLastModified
\* catches it and returns null.
Rejected(call, kind) ==
  [call EXCEPT !.pc = "done", !.failure = kind,
               !.result = IF call.op = "getLastModified"
                          THEN NullResult ELSE ErrorResult]

Returned(call, res) == [call EXCEPT !.pc = "done", !.result = res]

\* get, put and getLastModified after `await this.getFileInfo(key)`: get
\* returns null or calls readFile, put calls writeFile, getLastModified
\* returns null or new Date(fileInfo.modifiedTime).
AfterFileInfo(call, info) ==
  IF call.op = "get"
  THEN IF ~info.found THEN Returned(call, NullResult)
       ELSE [call EXCEPT !.pc = "read", !.fileId = info.id, !.reads = @ + 1]
  ELSE IF call.op = "put"
  THEN [call EXCEPT !.pc = "write", !.fileId = info.id, !.writes = @ + 1]
  ELSE IF ~info.found THEN Returned(call, NullResult)
  ELSE [call EXCEPT !.pc = "done", !.fileId = info.id,
                    !.date = info.modifiedTime,
                    !.result = IF info.modifiedTime = None
                               THEN InvalidDateResult ELSE DateResult]

\* getFileInfo after ensureValidClient: the cache, or the call of findFile.
CacheOrFind(call) ==
  IF HasCacheEntry(call.key)
  THEN AfterFileInfo(call, FileInfo(CachedFileId(call.key),
                                    CachedModifiedTime(call.key)))
  ELSE [call EXCEPT !.pc = "find", !.finds = @ + 1]

\* EnsureValidClient never refreshing the token.
EnsureValidClient_NoRefresh(call, next) ==
  IF client = None THEN Rejected(call, "client")
  ELSE IF next = "getFileInfo" THEN [call EXCEPT !.pc = "getFileInfo"]
  ELSE CacheOrFind(call)

\* ensureValidClient(), and what follows it when it resolves at once: the
\* call of refreshToken when the token is expired, else the check of
\* this.client and the caller's continuation (next).
EnsureValidClient(call, next) ==
  IF IsTokenExpired(settings.googleDriveTokenExpiry, now)
  THEN [call EXCEPT !.pc = "refresh", !.after = next, !.refreshes = @ + 1]
  ELSE IF client = None THEN Rejected(call, "client")
  ELSE IF next = "getFileInfo" THEN [call EXCEPT !.pc = "getFileInfo"]
  ELSE CacheOrFind(call)

NewCall(op, key, value) ==
  [IdleCall EXCEPT
     !.op = op, !.key = key, !.value = value,
     !.fileName = GetFileName(key),
     !.remainingAtStart = {e - now : e \in settings.googleDriveTokenExpiry},
     !.expiredAtStart = IsTokenExpired(settings.googleDriveTokenExpiry, now),
     !.absentAtStart =
        /\ fileCache[key] = None
        /\ Matches(GetFileName(key), settings.googleDriveFolderId) = {}]

\* The factory is called with the settings; the constructor of the drive
\* variant builds the client when there is an access token.
Construct ==
  /\ service = "none"
  /\ service' = FromConnectionSettings(settings)
  /\ client' = IF service' = "drive" /\ Truthy(settings.googleDriveAccessToken)
               THEN Some(settings.googleDriveAccessToken)
               ELSE None
  /\ UNCHANGED <<settings, fileCache, files, calls, callsStarted, lastPut,
                 overwritten, now>>

\* get(key) up to its first await of a remote call.
StartGet(c, key) ==
  /\ service = "drive"
  /\ calls[c].pc \in {"idle", "done"}
  /\ calls' = [calls EXCEPT
                 ![c] = EnsureValidClient(NewCall("get", key, NoValue), "getFileInfo")]
  /\ callsStarted' = callsStarted + 1
  /\ UNCHANGED <<settings, service, client, fileCache, files, lastPut,
                 overwritten, now>>

\* put(key, value) up to its first await of a remote call.
StartPut(c, key, value) ==
  /\ service = "drive"
  /\ calls[c].pc \in {"idle", "done"}
  /\ calls' = [calls EXCEPT
                 ![c] = EnsureValidClient(NewCall("put", key, value), "getFileInfo")]
  /\ callsStarted' = callsStarted + 1
  /\ UNCHANGED <<settings, service, client, fileCache, files, lastPut,
                 overwritten, now>>

\* getFileInfo(key) up to its first await of a remote call.
GetFileInfo(c) ==
  /\ calls[c].pc = "getFileInfo"
  /\ calls' = [calls EXCEPT ![c] = EnsureValidClient(calls[c], "cache")]
  /\ UNCHANGED <<settings, service, client, fileCache, files, callsStarted,
                 lastPut, overwritten, now>>

\* RefreshResolves leaving the client with the token it had.
RefreshResolves_KeepsClient(c, expiresIn) ==
  /\ calls[c].pc = "refresh"
  /\ settings' = [settings EXCEPT
                    !.googleDriveAccessToken = RefreshedToken,
                    !.googleDriveTokenExpiry = Some(now + expiresIn * 1000)]
  /\ LET call == [calls[c] EXCEPT
                    !.refreshed = @ + 1,
                    !.notified = IF onTokenRefresh THEN @ + 1 ELSE @,
                    !.persisted = IF onTokenRefresh THEN Some(settings') ELSE @]
     IN
     calls' = [calls EXCEPT
                 ![c] = IF call.after = "getFileInfo"
                        THEN [call EXCEPT !.pc = "getFileInfo"]
                        ELSE CacheOrFind(call)]
  /\ UNCHANGED <<service, client, fileCache, files, callsStarted, lastPut,
                 overwritten, now>>

\* refreshToken() resolved with a token of expiresIn seconds: the settings
\* and the client take it, and the caller of ensureValidClient goes on.
RefreshResolves(c, expiresIn) ==
  /\ calls[c].pc = "refresh"
  /\ settings' = [settings EXCEPT
                    !.googleDriveAccessToken = RefreshedToken,
                    !.googleDriveTokenExpiry = Some(now + expiresIn * 1000)]
  /\ client' = Some(RefreshedToken)
  /\ LET call == [calls[c] EXCEPT
                    !.refreshed = @ + 1,
                    !.notified = IF onTokenRefresh THEN @ + 1 ELSE @,
                    !.persisted = IF onTokenRefresh THEN Some(settings') ELSE @]
     IN
     calls' = [calls EXCEPT
                 ![c] = IF call.after = "getFileInfo"
                        THEN [call EXCEPT !.pc = "getFileInfo"]
                        ELSE CacheOrFind(call)]
  /\ UNCHANGED <<service, fileCache, files, callsStarted, lastPut,
                 overwritten, now>>

\* RefreshRejects calling refreshToken() again, up to three times.
RefreshRejects_Retries(c) ==
  /\ calls[c].pc = "refresh"
  /\ calls' = [calls EXCEPT
                 ![c] = IF calls[c].refreshes < 3
                        THEN [calls[c] EXCEPT !.refreshes = @ + 1]
                        ELSE Rejected(calls[c], "refresh")]
  /\ UNCHANGED <<settings, service, client, fileCache, files, callsStarted,
                 lastPut, overwritten, now>>

\* refreshToken() rejected: the error is thrown on through get or put.
RefreshRejects(c) ==
  /\ calls[c].pc = "refresh"
  /\ calls' = [calls EXCEPT ![c] = Rejected(calls[c], "refresh")]
  /\ UNCHANGED <<settings, service, client, fileCache, files, callsStarted,
                 lastPut, overwritten, now>>

\* findFile resolved: with a file, which the cache records, or with null.
FindResolves(c) ==
  /\ calls[c].pc = "find"
  /\ LET call == calls[c]
         found == Matches(call.fileName, settings.googleDriveFolderId)
     IN IF found = {}
        THEN /\ calls' = [calls EXCEPT ![c] = AfterFileInfo(call, NoFile)]
             /\ UNCHANGED fileCache
        ELSE \E f \in found :
               /\ fileCache' =
                    [fileCache EXCEPT
                       ![call.key] = Some([fileId |-> f.id,
                                           modifiedTime |-> f.modifiedTime])]
               /\ calls' = [calls EXCEPT
                              ![c] = AfterFileInfo(call,
                                       FileInfo(Some(f.id),
                                                Some(f.modifiedTime)))]
  /\ UNCHANGED <<settings, service, client, files, callsStarted, lastPut,
                 overwritten, now>>

FindRejects(c) ==
  /\ calls[c].pc = "find"
  /\ calls' = [calls EXCEPT ![c] = Rejected(calls[c], "find")]
  /\ UNCHANGED <<settings, service, client, fileCache, files, callsStarted,
                 lastPut, overwritten, now>>

\* readFile resolved: the file of that id exists and its text is parsed.
ReadResolves(c) ==
  /\ calls[c].pc = "read"
  /\ \E f \in files :
       /\ calls[c].fileId = Some(f.id)
       /\ calls' = [calls EXCEPT
                      ![c] = Returned(calls[c], ValueResult(JsonParse(f.content)))]
  /\ UNCHANGED <<settings, service, client, fileCache, files, callsStarted,
                 lastPut, overwritten, now>>

\* readFile rejected: the response is not ok (no file of that id among
\* other reasons) or the request failed.
ReadRejects(c) ==
  /\ calls[c].pc = "read"
  /\ calls' = [calls EXCEPT ![c] = Rejected(calls[c], "read")]
  /\ UNCHANGED <<settings, service, client, fileCache, files, callsStarted,
                 lastPut, overwritten, now>>

\* WriteResolves leaving the text of an existing file as it is.
WriteResolves_KeepsContent(c) ==
  /\ calls[c].pc = "write"
  /\ LET call == calls[c]
         text == JsonStringify(call.value)
         written(id) ==
           /\ fileCache' = [fileCache EXCEPT
                              ![call.key] = Some([fileId |-> id,
                                                  modifiedTime |-> now])]
           /\ lastPut' = [lastPut EXCEPT
                            ![call.key] = Some([value |-> call.value,
                                                fileId |-> id])]
           /\ overwritten' =
                (overwritten \ {call.key}) \cup
                {k \in Keys \ {call.key} :
                   \E p \in lastPut[k] : p.fileId = id}
           /\ calls' = [calls EXCEPT
                          ![c] = Returned(call, ValueResult(call.value))]
     IN IF call.fileId # None
        THEN \E f \in files :
               /\ call.fileId = Some(f.id)
               /\ files' = (files \ {f}) \cup {[f EXCEPT !.modifiedTime = now]}
               /\ written(f.id)
        ELSE LET id == Cardinality(files) + 1 IN
             /\ files' = files \cup
                           {[id |-> id,
                             name |-> CreatedName(call.fileName),
                             folderId |-> settings.googleDriveFolderId,
                             content |-> text, modifiedTime |-> now]}
             /\ written(id)
  /\ UNCHANGED <<settings, service, client, callsStarted, now>>

\* writeFile resolved: the file of the given id is overwritten, or with no
\* id a file is created; the cache records the id and put returns value.
WriteResolves(c) ==
  /\ calls[c].pc = "write"
  /\ LET call == calls[c]
         text == JsonStringify(call.value)
         written(id) ==
           /\ fileCache' = [fileCache EXCEPT
                              ![call.key] = Some([fileId |-> id,
                                                  modifiedTime |-> now])]
           /\ lastPut' = [lastPut EXCEPT
                            ![call.key] = Some([value |-> call.value,
                                                fileId |-> id])]
           /\ overwritten' =
                (overwritten \ {call.key}) \cup
                {k \in Keys \ {call.key} :
                   \E p \in lastPut[k] : p.fileId = id}
           /\ calls' = [calls EXCEPT
                          ![c] = Returned(call, ValueResult(call.value))]
     IN IF call.fileId # None
        THEN \E f \in files :
               /\ call.fileId = Some(f.id)
               /\ files' = (files \ {f}) \cup
                             {[f EXCEPT !.content = text, !.modifiedTime = now]}
               /\ written(f.id)
        ELSE LET id == Cardinality(files) + 1 IN
             /\ files' = files \cup
                           {[id |-> id,
                             name |-> CreatedName(call.fileName),
                             folderId |-> settings.googleDriveFolderId,
                             content |-> text, modifiedTime |-> now]}
             /\ written(id)
  /\ UNCHANGED <<settings, service, client, callsStarted, now>>

WriteRejects(c) ==
  /\ calls[c].pc = "write"
  /\ calls' = [calls EXCEPT ![c] = Rejected(calls[c], "write")]
  /\ UNCHANGED <<settings, service, client, fileCache, files, callsStarted,
                 lastPut, overwritten, now>>

\* The clock advances between two steps.
DriveTick ==
  /\ now' = now + DriveDelay
  /\ UNCHANGED driveVars

\* getLastModified(key) up to its first await of a remote call: it calls
\* getFileInfo at once.
StartGetLastModified(c, key) ==
  /\ service = "drive"
  /\ calls[c].pc \in {"idle", "done"}
  /\ calls' = [calls EXCEPT
                 ![c] = EnsureValidClient(NewCall("getLastModified", key, NoValue),
                                          "cache")]
  /\ callsStarted' = callsStarted + 1
  /\ UNCHANGED <<settings, service, client, fileCache, files, lastPut,
                 overwritten, now>>

\* What the drive can answer a metadata request with: the mimeType of a
\* folder, the mimeType of a file, and a body that is not JSON (request
\* returns {} and mimeType is undefined).
FolderMimeType == "application/vnd.google-apps.folder"
MimeTypes == {FolderMimeType, "application/json", "undefined"}

\* What makes request throw: a response that is not ok, a failed fetch,
\* and a body that response.json() cannot parse.
RequestFailures == {"status", "network", "body"}

\* client.checkFolderAccess(folderId) up to the await of its request.
StartCheckFolderAccess(c) ==
  /\ service = "drive"
  /\ client # None
  /\ calls[c].pc \in {"idle", "done"}
  /\ calls' = [calls EXCEPT
                 ![c] = [IdleCall EXCEPT !.op = "checkFolderAccess",
                                         !.pc = "probe"]]
  /\ callsStarted' = callsStarted + 1
  /\ UNCHANGED <<settings, service, client, fileCache, files, lastPut,
                 overwritten, now>>

\* The request of checkFolderAccess resolved with an item of mimeType.
ProbeResolves(c, mimeType) ==
  /\ calls[c].pc = "probe"
  /\ calls' = [calls EXCEPT
                 ![c] = [calls[c] EXCEPT
                           !.pc = "done", !.response = mimeType,
                           !.result = BoolResult(mimeType = FolderMimeType)]]
  /\ UNCHANGED <<settings, service, client, fileCache, files, callsStarted,
                 lastPut, overwritten, now>>

\* ProbeRejects letting the error of the request through.
ProbeRejects_Throws(c, kind) ==
  /\ calls[c].pc = "probe"
  /\ calls' = [calls EXCEPT
                 ![c] = [calls[c] EXCEPT !.pc = "done", !.failure = kind,
                                         !.result = ErrorResult]]
  /\ UNCHANGED <<settings, service, client, fileCache, files, callsStarted,
                 lastPut, overwritten, now>>

\* The request of checkFolderAccess threw: the catch returns false.
ProbeRejects(c, kind) ==
  /\ calls[c].pc = "probe"
  /\ calls' = [calls EXCEPT
                 ![c] = [calls[c] EXCEPT !.pc = "done", !.failure = kind,
                                         !.result = BoolResult(FALSE)]]
  /\ UNCHANGED <<settings, service, client, fileCache, files, callsStarted,
                 lastPut, overwritten, now>>

\* clearCache()
ClearCache ==
  /\ service = "drive"
  /\ fileCache' = [k \in Keys |-> None]
  /\ UNCHANGED <<settings, service, client, files, calls, callsStarted,
                 lastPut, overwritten, now>>

\* updateSettings(s): the settings replaced, the client given the token
\* when there is one.
UpdateSettings(s) ==
  /\ service = "drive"
  /\ settings' = s
  /\ client' = IF Truthy(s.googleDriveAccessToken)
               THEN Some(s.googleDriveAccessToken)
               ELSE client
  /\ UNCHANGED <<service, fileCache, files, calls, callsStarted, lastPut,
                 overwritten, now>>

\* -------------------------------------------------------------- SpecDrive
\* The factory called once with any settings; on the drive variant, calls
\* of get and put one after the other, each remote call resolving or
\* rejecting.  The folder holds nothing, or the homebrew file of an earlier
\* session.  The hook is not mounted.

EarlierFile ==
  [id |-> 1, name |-> <<"forgesteel-homebrew", ".json">>, folderId |-> "folder-a",
   content |-> JsonStringify([level |-> Number(2)]), modifiedTime |-> 0]

DriveInit ==
  /\ HookInit /\ isOnline /\ ~enabled /\ ~onSync /\ ~onError
  /\ HistoryInit
  /\ PanelUnused
  /\ settings \in ConnectionSettings
  /\ service = "none"
  /\ client = None
  /\ fileCache = [k \in Keys |-> None]
  /\ files \in {{}, {EarlierFile}}
  /\ calls = [c \in CallIds |-> IdleCall]
  /\ callsStarted = 0
  /\ onTokenRefresh = TRUE
  /\ lastPut = [k \in Keys |-> None]
  /\ overwritten = {}

DriveBounded ==
  /\ callsStarted' <= MaxCalls
  /\ now' <= MaxDriveTicks * DriveDelay
  /\ UNCHANGED onTokenRefresh
  /\ UNCHANGED <<stateVars, isOnline, optionVars, refVars, timers, inFlight,
                 onSyncCalls, onErrorCalls, historyVars, resumeVars, retryVars,
                 panelVars>>

\* No call is open, and c is the first of the call ids.
Sequential(c) ==
  \A d \in CallIds : calls[d].pc \in {"idle", "done"} /\ c <= d

DriveNext ==
  \/ Construct /\ DriveBounded
  \/ \E c \in CallIds, key \in Keys :
       Sequential(c) /\ StartGet(c, key) /\ DriveBounded
  \/ \E c \in CallIds, key \in Keys, value \in Values :
       Sequential(c) /\ StartPut(c, key, value) /\ DriveBounded
  \/ \E c \in CallIds : GetFileInfo(c) /\ DriveBounded
  \/ \E c \in CallIds, expiresIn \in ExpiresIn :
       RefreshResolves(c, expiresIn) /\ DriveBounded
  \/ \E c \in CallIds : RefreshRejects(c) /\ DriveBounded
  \/ \E c \in CallIds : FindResolves(c) /\ DriveBounded
  \/ \E c \in CallIds : FindRejects(c) /\ DriveBounded
  \/ \E c \in CallIds : ReadResolves(c) /\ DriveBounded
  \/ \E c \in CallIds : ReadRejects(c) /\ DriveBounded
  \/ \E c \in CallIds : WriteResolves(c) /\ DriveBounded
  \/ \E c \in CallIds : WriteRejects(c) /\ DriveBounded
  \/ DriveTick /\ DriveBounded

SpecDrive == DriveInit /\ [][DriveNext]_vars

\* ------------------------------------------------------------ SpecService
\* A drive service as the factory built it for a folder and a token, with
\* a token-refresh callback, on an empty folder.  Its owner calls get, put,
\* getLastModified, clearCache and updateSettings (with the settings it
\* has, for the same or for another folder) one after the other.

ServiceFolders == {"folder-a", "folder-b"}
ServiceKeys == {"custom-key", "constructor"}
ServiceValues == {[level |-> Number(1)]}

\* The service built, with or without the callback.
ServiceBuilt ==
  /\ HookInit /\ isOnline /\ ~enabled /\ ~onSync /\ ~onError
  /\ HistoryInit
  /\ PanelUnused
  /\ \E expiry \in Expiries :
       settings = [useWarehouse |-> FALSE, useGoogleDrive |-> TRUE,
                   googleDriveFolderId |-> "folder-a",
                   googleDriveAccessToken |-> "token-1",
                   googleDriveTokenExpiry |-> expiry]
  /\ service = FromConnectionSettings(settings)
  /\ client = Some(settings.googleDriveAccessToken)
  /\ fileCache = [k \in Keys |-> None]
  /\ files = {}
  /\ calls = [c \in CallIds |-> IdleCall]
  /\ callsStarted = 0
  /\ onTokenRefresh \in BOOLEAN
  /\ lastPut = [k \in Keys |-> None]
  /\ overwritten = {}

ServiceInit == ServiceBuilt /\ onTokenRefresh

ServiceBounded ==
  /\ callsStarted' <= MaxServiceCalls
  /\ now' <= MaxServiceTicks * DriveDelay
  /\ UNCHANGED onTokenRefresh
  /\ UNCHANGED <<stateVars, isOnline, optionVars, refVars, timers, inFlight,
                 onSyncCalls, onErrorCalls, historyVars, resumeVars, retryVars,
                 panelVars>>

\* The settings the owner can hand to updateSettings: its own, with the
\* folder kept or changed.
UpdatedSettings ==
  {[settings EXCEPT !.googleDriveFolderId = f] : f \in ServiceFolders}

\* No call is open.
Quiet == \A d \in CallIds : calls[d].pc \in {"idle", "done"}

ServiceNext ==
  \/ \E c \in CallIds, key \in ServiceKeys :
       Sequential(c) /\ StartGet(c, key) /\ ServiceBounded
  \/ \E c \in CallIds, key \in ServiceKeys, value \in ServiceValues :
       Sequential(c) /\ StartPut(c, key, value) /\ ServiceBounded
  \/ \E c \in CallIds, key \in ServiceKeys :
       Sequential(c) /\ StartGetLastModified(c, key) /\ ServiceBounded
  \/ \E c \in CallIds : GetFileInfo(c) /\ ServiceBounded
  \/ \E c \in CallIds, expiresIn \in ExpiresIn :
       RefreshResolves(c, expiresIn) /\ ServiceBounded
  \/ \E c \in CallIds : RefreshRejects(c) /\ ServiceBounded
  \/ \E c \in CallIds : FindResolves(c) /\ ServiceBounded
  \/ \E c \in CallIds : FindRejects(c) /\ ServiceBounded
  \/ \E c \in CallIds : ReadResolves(c) /\ ServiceBounded
  \/ \E c \in CallIds : ReadRejects(c) /\ ServiceBounded
  \/ \E c \in CallIds : WriteResolves(c) /\ ServiceBounded
  \/ \E c \in CallIds : WriteRejects(c) /\ ServiceBounded
  \/ Quiet /\ ClearCache /\ ServiceBounded
  \/ \E s \in UpdatedSettings : Quiet /\ UpdateSettings(s) /\ ServiceBounded
  \/ DriveTick /\ ServiceBounded

SpecService == ServiceInit /\ [][ServiceNext]_vars

\* -------------------------------------------------------------- SpecToken
\* A drive service as the factory built it, with or without a
\* token-refresh callback.  Its owner calls get and put for one key, one
\* after the other, probes a folder with the client's checkFolderAccess,
\* and hands the service settings with the token kept, changed or removed;
\* the token is refreshed when a call finds it expired.

TokenKeys == {"custom-key"}

\* The settings the owner can hand to updateSettings: its own, with the
\* access token kept, changed or removed.
TokenUpdates ==
  {[settings EXCEPT !.googleDriveAccessToken = t] : t \in AccessTokens}

TokenInit == ServiceBuilt

TokenNext ==
  \/ \E c \in CallIds, key \in TokenKeys :
       Sequential(c) /\ StartGet(c, key) /\ ServiceBounded
  \/ \E c \in CallIds, key \in TokenKeys, value \in ServiceValues :
       Sequential(c) /\ StartPut(c, key, value) /\ ServiceBounded
  \/ \E c \in CallIds :
       Sequential(c) /\ StartCheckFolderAccess(c) /\ ServiceBounded
  \/ \E c \in CallIds : GetFileInfo(c) /\ ServiceBounded
  \/ \E c \in CallIds, expiresIn \in ExpiresIn :
       RefreshResolves(c, expiresIn) /\ ServiceBounded
  \/ \E c \in CallIds : RefreshRejects(c) /\ ServiceBounded
  \/ \E c \in CallIds : FindResolves(c) /\ ServiceBounded
  \/ \E c \in CallIds : FindRejects(c) /\ ServiceBounded
  \/ \E c \in CallIds : ReadResolves(c) /\ ServiceBounded
  \/ \E c \in CallIds : ReadRejects(c) /\ ServiceBounded
  \/ \E c \in CallIds : WriteResolves(c) /\ ServiceBounded
  \/ \E c \in CallIds : WriteRejects(c) /\ ServiceBounded
  \/ \E c \in CallIds, mimeType \in MimeTypes :
       ProbeResolves(c, mimeType) /\ ServiceBounded
  \/ \E c \in CallIds, kind \in RequestFailures :
       ProbeRejects(c, kind) /\ ServiceBounded
  \/ \E s \in TokenUpdates : Quiet /\ UpdateSettings(s) /\ ServiceBounded
  \/ DriveTick /\ ServiceBounded

SpecToken == TokenInit /\ [][TokenNext]_vars

\* ------------------------------------------------------------ SpecOverlap
\* The drive service of SpecService on an empty folder, whose owner calls
\* put for one key without waiting for the put before: the calls interleave
\* at their awaits.

OverlapNext ==
  \/ \E c \in CallIds, key \in TokenKeys, value \in Values :
       StartPut(c, key, value) /\ ServiceBounded
  \/ \E c \in CallIds : GetFileInfo(c) /\ ServiceBounded
  \/ \E c \in CallIds, expiresIn \in ExpiresIn :
       RefreshResolves(c, expiresIn) /\ ServiceBounded
  \/ \E c \in CallIds : RefreshRejects(c) /\ ServiceBounded
  \/ \E c \in CallIds : FindResolves(c) /\ ServiceBounded
  \/ \E c \in CallIds : FindRejects(c) /\ ServiceBounded
  \/ \E c \in CallIds : WriteResolves(c) /\ ServiceBounded
  \/ \E c \in CallIds : WriteRejects(c) /\ ServiceBounded
  \/ DriveTick /\ ServiceBounded

SpecOverlap == ServiceInit /\ [][OverlapNext]_vars

\* --------------------------------------- Part 3: signing out of the panel

\* The script of the identity library finishes loading.
LibraryLoads ==
  /\ ~library
  /\ library' = TRUE
  /\ UNCHANGED <<isGisLoaded, disconnects, revokes, onDisconnectCalls>>

\* GoogleAuthService.waitForLibrary(), which signIn() and refreshToken()
\* call while isGisLoaded is false: it sets the flag once it sees the
\* library, at its call or at one of its polls; without the library it
\* gives up and changes nothing.
WaitForLibrary ==
  /\ library
  /\ isGisLoaded' = TRUE
  /\ UNCHANGED <<library, disconnects, revokes, onDisconnectCalls>>

\* The locals of a run of handleDisconnect as it begins.
NewDisconnect ==
  [IdleDisconnect EXCEPT
     !.token = settings.googleDriveAccessToken,
     !.flagAtStart = isGisLoaded,
     !.libraryAtStart = library]

\* handleDisconnect() up to its first wait.  With no token in the
\* connection settings it calls onDisconnect() at once.  With one it awaits
\* signOut(token): signOut returns at once while isGisLoaded is false, and
\* onDisconnect() follows; otherwise signOut calls oauth2.revoke and waits
\* for the library to call back.
HandleDisconnect(d) ==
  /\ disconnects[d].pc = "idle"
  /\ \A e \in DisconnectIds : e < d => disconnects[e].pc # "idle"
  /\ IF ~Truthy(settings.googleDriveAccessToken)
     THEN /\ disconnects' = [disconnects EXCEPT ![d] =
                [NewDisconnect EXCEPT !.pc = "done", !.notified = 1]]
          /\ onDisconnectCalls' = onDisconnectCalls + 1
          /\ UNCHANGED revokes
     ELSE IF ~isGisLoaded
     THEN /\ disconnects' = [disconnects EXCEPT ![d] =
                [NewDisconnect EXCEPT !.pc = "done", !.signOut = "skipped",
                                      !.notified = 1]]
          /\ onDisconnectCalls' = onDisconnectCalls + 1
          /\ UNCHANGED revokes
     ELSE /\ disconnects' = [disconnects EXCEPT ![d] =
                [NewDisconnect EXCEPT !.pc = "revoking", !.revoked = TRUE]]
          /\ revokes' = revokes (+) SetToBag({settings.googleDriveAccessToken})
          /\ UNCHANGED onDisconnectCalls
  /\ UNCHANGED <<library, isGisLoaded>>

\* What the library reports to the callback of revoke; the callback takes
\* no argument.
RevokeResponses == {"successful", "failed"}

\* The callback of revoke rejecting the promise of signOut when the
\* revocation failed, and handleDisconnect ending there.
RevokeResponds_Rejects(d, response) ==
  /\ disconnects[d].pc = "revoking"
  /\ disconnects' = [disconnects EXCEPT ![d] =
        IF response = "failed"
        THEN [@ EXCEPT !.pc = "failed", !.response = response,
                       !.signOut = "rejected"]
        ELSE [@ EXCEPT !.pc = "done", !.response = response,
                       !.signOut = "resolved", !.notified = @ + 1]]
  /\ onDisconnectCalls' =
       IF response = "failed" THEN onDisconnectCalls
       ELSE onDisconnectCalls + 1
  /\ UNCHANGED <<library, isGisLoaded, revokes>>

\* The library calls the callback of revoke: the promise of signOut
\* resolves whatever the outcome, and handleDisconnect calls onDisconnect().
RevokeResponds(d, response) ==
  /\ disconnects[d].pc = "revoking"
  /\ disconnects' = [disconnects EXCEPT ![d] =
        [@ EXCEPT !.pc = "done", !.response = response,
                  !.signOut = "resolved", !.notified = @ + 1]]
  /\ onDisconnectCalls' = onDisconnectCalls + 1
  /\ UNCHANGED <<library, isGisLoaded, revokes>>

\* ---------------------------------------------------------- SpecDisconnect
\* The panel shown for connection settings with or without a token, in a
\* page in which the identity library has loaded or not and the auth
\* service was not used yet.  The user clicks Disconnect, the library
\* loads, signIn() or refreshToken() wait for it, and the library answers
\* every revoke.  The hook is not mounted and no drive service is built.

DisconnectInit ==
  /\ HookInit /\ isOnline /\ ~enabled /\ ~onSync /\ ~onError
  /\ HistoryInit
  /\ \E token \in AccessTokens, expiry \in Expiries :
       settings = [useWarehouse |-> FALSE, useGoogleDrive |-> TRUE,
                   googleDriveFolderId |-> "folder-a",
                   googleDriveAccessToken |-> token,
                   googleDriveTokenExpiry |-> expiry]
  /\ service = "none"
  /\ client = None
  /\ fileCache = [k \in Keys |-> None]
  /\ files = {}
  /\ calls = [c \in CallIds |-> IdleCall]
  /\ callsStarted = 0
  /\ onTokenRefresh = FALSE
  /\ lastPut = [k \in Keys |-> None]
  /\ overwritten = {}
  /\ library \in BOOLEAN
  /\ isGisLoaded = FALSE
  /\ disconnects = [d \in DisconnectIds |-> IdleDisconnect]
  /\ revokes = EmptyBag
  /\ onDisconnectCalls = 0

DisconnectBounded ==
  UNCHANGED <<hookVars, historyVars, resumeVars, retryVars, driveVars>>

Answer == \E d \in DisconnectIds, response \in RevokeResponses :
  RevokeResponds(d, response) /\ DisconnectBounded

DisconnectNext ==
  \/ LibraryLoads /\ DisconnectBounded
  \/ WaitForLibrary /\ DisconnectBounded
  \/ \E d \in DisconnectIds : HandleDisconnect(d) /\ DisconnectBounded
  \/ Answer

SpecDisconnect ==
  DisconnectInit /\ [][DisconnectNext]_vars /\ WF_vars(Answer)

\* ------------------------------------------------------------------ claims

\* C1: single-flight.  In every interleaving of the hook's functions, timer
\* expiries, connectivity events and completions, at most one call of onSync
\* is in flight.
C1_SingleFlight == inFlight <= 1

\* A sync is in flight and a second request arrived: it was recorded, not run.
C1_Witness == inFlight = 1 /\ pendingAfterSyncRef /\ onSyncCalls = 1

\* C2: debounce coalescing.  A burst of triggerSync() calls (enabled, online,
\* sync function registered, nothing in flight, each call inside the window
\* of the one before) leaves one timer armed, due one debounce delay after
\* the latest call, and causes exactly one call of onSync.
C2_DebounceCoalescing ==
  burstOpen =>
    /\ burstSyncs <= 1
    /\ burstSyncs = 0 =>
         /\ NumArmed("debounce") = 1
         /\ \A t \in Armed("debounce") :
              /\ debounceTimerRef = Some(t)
              /\ t.due = burstLastCall + DebounceMs

\* C3: a request that arrives while a sync is in flight is neither lost nor
\* run twice.  After a sync during which triggerSync() or forceSync() was
\* called has completed, and with no further call of either, exactly one
\* more call of onSync happens: never two, and while it has not happened
\* and nothing is in flight a timer is armed to make it.
C3_RerunExactlyOnce ==
  rerunWatch =>
    /\ rerunSyncs <= 1
    /\ (rerunSyncs = 0 /\ inFlight = 0) => timers # EmptyBag

\* C4: when onSync resolves, status is synced, lastSyncTime is the instant
\* of the completion, pendingChanges is false and error is null.
C4_SuccessState ==
  [][SyncSucceeds =>
       /\ status' = "synced"
       /\ lastSyncTime' = Some(now')
       /\ pendingChanges' = FALSE
       /\ error' = Null]_vars

\* A sync of pending changes has just succeeded, after time has passed.
C4_Witness ==
  /\ status = "synced" /\ lastSyncTime = Some(now) /\ now > 0
  /\ ~pendingChanges /\ error = Null
  /\ onSyncCalls = 1 /\ inFlight = 0

\* C5, as stated: when onSync rejects, status is error, error is the
\* failure's message, the error callback (if any) is called, and
\* pendingChanges and lastSyncTime keep their values.
C5_FailureState_Original ==
  [][\A f \in Failures :
       SyncFails(f) =>
         /\ status' = "error"
         /\ error' = f.message
         /\ onError => onErrorCalls' = onErrorCalls + 1
         /\ UNCHANGED <<pendingChanges, lastSyncTime>>]_vars

\* C5, amended: when onSync rejects, status is error; error is the failure's
\* message when the failure is an Error and "Sync failed" otherwise; the
\* error callback is called exactly when one is registered and the failure
\* is an Error; pendingChanges and lastSyncTime keep their values.
C5_FailureState ==
  [][\A f \in Failures :
       SyncFails(f) =>
         /\ status' = "error"
         /\ error' = IF f.isError THEN f.message ELSE SyncFailedMessage
         /\ onErrorCalls' = IF onError /\ f.isError
                            THEN onErrorCalls + 1 ELSE onErrorCalls
         /\ UNCHANGED <<pendingChanges, lastSyncTime>>]_vars

\* The only sync so far failed with a value that is not an Error, with
\* changes pending and an error callback registered: it was not called.
C5_Witness ==
  /\ status = "error" /\ error = SyncFailedMessage
  /\ pendingChanges /\ onError /\ onErrorCalls = 0
  /\ onSyncCalls = 1 /\ inFlight = 0

\* C6: recovery after a failure.  A sync that fails with changes pending
\* leaves them pending, with status error and an error message; a
\* triggerSync() in that state keeps all three and arms the retry; the retry
\* clears the message when it starts; and when it succeeds status is synced,
\* error is null and pendingChanges is false.
C6_Recovery ==
  [][/\ \A f \in Failures :
          (SyncFails(f) /\ pendingChanges) =>
            (pendingChanges' /\ status' = "error" /\ error' # Null)
     /\ (TriggerSync /\ enabled /\ status = "error") =>
          /\ pendingChanges' /\ status' = "error" /\ error' = error
          /\ NumArmed("debounce")' = 1
     /\ \A t \in BagToSet(timers) :
          (FireDebounce(t) /\ Started) => (status' = "syncing" /\ error' = Null)
     /\ (SyncSucceeds /\ onErrorCalls > 0) =>
          (status' = "synced" /\ error' = Null /\ ~pendingChanges')]_vars

\* The first sync failed (the error callback was called), triggerSync()
\* armed a retry, its timer fired, and the second sync succeeded.
C6_Witness ==
  /\ onErrorCalls = 1 /\ onSyncCalls = 2 /\ inFlight = 0
  /\ status = "synced" /\ error = Null /\ ~pendingChanges
  /\ debounceTimerRef # None /\ NumArmed("debounce") = 0

\* C7: cancelPendingSync() disarms the debounce timer of the triggerSync()
\* before it, so that no call of onSync comes of it, calls onSync itself
\* not at all, sets pendingChanges to false and leaves status, lastSyncTime
\* and error as they were.
C7_CancelPending ==
  [][CancelPendingSync =>
       /\ NumArmed("debounce")' = 0
       /\ debounceTimerRef' = None
       /\ pendingChanges' = FALSE
       /\ UNCHANGED <<status, lastSyncTime, error, inFlight, onSyncCalls>>]_vars

\* After one sync, triggerSync() made the status idle and cancelPendingSync()
\* then dropped the change: nothing is armed and nothing was called again.
C7_Witness ==
  /\ status = "idle" /\ lastSyncTime # None /\ ~pendingChanges
  /\ debounceTimerRef = None /\ timers = EmptyBag
  /\ enabled /\ isOnline /\ onSync
  /\ onSyncCalls = 1 /\ inFlight = 0

C9_GoOffline ==
  [][GoOffline =>
       /\ status' = "offline"
       /\ UNCHANGED <<pendingChanges, lastSyncTime, error>>]_vars

\* Offline with a sync still in flight: the status was syncing.
C9_Witness ==
  /\ ~isOnline /\ status = "offline" /\ inFlight = 1 /\ pendingChanges

\* C10: when connectivity returns, status becomes idle if changes are
\* pending and synced if not.
C10_GoOnline ==
  [][GoOnline =>
       status' = IF pendingChanges THEN "idle" ELSE "synced"]_vars

\* C11: resync after reconnection.  Once connectivity has returned with
\* changes pending (enabled, sync function registered, connectivity staying,
\* no triggerSync() or forceSync() since), onSync is eventually called,
\* unless the changes stopped being pending in the meantime.
C11_ResyncAfterReconnect ==
  (resumeWatch /\ pendingChanges) ~>
    (resumeSynced \/ ~pendingChanges \/ ReconnectExhausted)

\* C12: a sync attempt that starts while offline, or while no sync function
\* is registered, is a silent no-op.  Whether it starts from forceSync() or
\* from the expiry of a debounce, rerun or back-online timer, and whenever
\* the timer was armed, it calls neither onSync nor onError and leaves
\* status, error, lastSyncTime and pendingChanges as they were.
C12_OfflineNoOp ==
  [][((~isOnline \/ ~onSync) /\
        (\/ ForceSync
         \/ \E t \in BagToSet(timers) :
              FireDebounce(t) \/ FireRerun(t) \/ FireSettle(t))) =>
       UNCHANGED <<onSyncCalls, onErrorCalls, inFlight, status, error,
                   lastSyncTime, pendingChanges>>]_vars

\* C13: triggerSync(), when enabled, sets pendingChanges, makes a synced
\* status idle and leaves every other status as it is, leaves lastSyncTime
\* and error as they are, leaves exactly one debounce timer armed, due one
\* debounce delay from now and held by debounceTimerRef, and does not call
\* onSync.
C13_TriggerSync ==
  [][(TriggerSync /\ enabled) =>
       /\ pendingChanges' = TRUE
       /\ status' = IF status = "synced" THEN "idle" ELSE status
       /\ UNCHANGED <<lastSyncTime, error, inFlight, onSyncCalls, onErrorCalls>>
       /\ NumArmed("debounce")' = 1
       /\ \A t \in Armed("debounce")' :
            t.due = now + DebounceMs /\ debounceTimerRef' = Some(t)]_vars

\* After a successful sync and some passage of time, triggerSync() was
\* called: the status went from synced to idle, lastSyncTime is kept and the
\* one armed timer is the new one.
C13_Witness ==
  /\ status = "idle" /\ lastSyncTime # None /\ error = Null /\ pendingChanges
  /\ NumArmed("debounce") = 1
  /\ \A t \in Armed("debounce") : debounceTimerRef = Some(t) /\ t.due = now + DebounceMs
  /\ onSyncCalls = 1 /\ inFlight = 0 /\ now > 0

C15_FactorySelection ==
  service # "none" =>
    LET credentials ==
          /\ settings.useGoogleDrive
          /\ settings.googleDriveFolderId \notin {Null, ""}
          /\ settings.googleDriveAccessToken \notin {Null, ""}
    IN /\ service \in {"warehouse", "drive", "local"}
       /\ (service = "warehouse") = settings.useWarehouse
       /\ (service = "drive") = (~settings.useWarehouse /\ credentials)
       /\ (service = "local") = (~settings.useWarehouse /\ ~credentials)

\* The warehouse variant was selected although the drive is switched on
\* with a folder id and an access token.
C15_Witness ==
  /\ service = "warehouse"
  /\ settings.useGoogleDrive
  /\ settings.googleDriveFolderId = "folder-a"
  /\ settings.googleDriveAccessToken = "token-1"

\* C16, as stated: round trip.  A get(key) that resolves after a successful
\* put(key, value) of the same service, with no write to that key in
\* between, resolves with a value equal to value.
C16_RoundTrip_Original ==
  \A c \in CallIds :
    (calls[c].pc = "done" /\ calls[c].op = "get"
       /\ calls[c].result.kind # "error") =>
      \A p \in lastPut[calls[c].key] :
        calls[c].result = ValueResult(p.value)

\* C16, amended: the same for a value that JSON renders without loss, and
\* with no write in between to that key or to another key that has the
\* same remote file.
C16_RoundTrip ==
  \A c \in CallIds :
    (calls[c].pc = "done" /\ calls[c].op = "get"
       /\ calls[c].result.kind # "error"
       /\ calls[c].key \notin overwritten) =>
      \A p \in lastPut[calls[c].key] :
        IsJsonValue(p.value) => calls[c].result = ValueResult(p.value)

\* put("forgesteel-homebrew-settings", value) overwrote the file of the
\* earlier session, and the get after it resolved with value.
C16_Witness ==
  \E c \in CallIds :
    /\ calls[c].pc = "done" /\ calls[c].op = "get"
    /\ calls[c].key = "forgesteel-homebrew-settings"
    /\ calls[c].result = ValueResult([level |-> Number(1)])
    /\ lastPut[calls[c].key] =
         Some([value |-> [level |-> Number(1)], fileId |-> EarlierFile.id])
    /\ Cardinality(files) = 1

\* C17: get(key) for a key that was never written (no file of its name in
\* the folder, no cache entry), the token refresh and the lookup not
\* failing, resolves with null and leaves the cache without an entry for
\* the key.
C17_GetMissingKey ==
  \A c \in CallIds :
    (calls[c].pc = "done" /\ calls[c].op = "get" /\ calls[c].absentAtStart
       /\ calls[c].failure \notin {"refresh", "find"}) =>
      (calls[c].result = NullResult /\ fileCache[calls[c].key] = None)

\* C18: a call of get or put that began with an expired token has made no
\* remote file call before a token refresh has resolved; and a call with a
\* resolved refresh and no rejected remote call ends with its normal
\* result: null or the stored value for get, the given value for put.
C18_RefreshFirst ==
  \A c \in CallIds :
    LET call == calls[c] IN
    /\ (call.expiredAtStart /\ call.finds + call.reads + call.writes > 0) =>
         call.refreshed >= 1
    /\ (call.pc = "done" /\ call.refreshed >= 1 /\ call.failure = "none") =>
         IF call.op = "put"
         THEN /\ call.result = ValueResult(call.value)
              /\ \E f \in files : f.content = JsonStringify(call.value)
         ELSE call.result.kind \in {"null", "value"}

\* A put that began with an expired token refreshed it once, wrote the
\* file and resolved with its value.
C18_Witness ==
  \E c \in CallIds :
    /\ calls[c].pc = "done" /\ calls[c].op = "put"
    /\ calls[c].expiredAtStart /\ calls[c].refreshes = 1 /\ calls[c].refreshed = 1
    /\ calls[c].writes = 1
    /\ calls[c].result = ValueResult(calls[c].value)
    /\ client = Some(RefreshedToken)

\* C19, as stated: a call of get or put makes each of its remote calls
\* (token refresh, lookup, read, write) at most once, and when one of them
\* is rejected the call is over and rejected.
C19_NoRetry_Original ==
  \A c \in CallIds :
    LET call == calls[c] IN
    /\ call.refreshes <= 1 /\ call.finds <= 1
    /\ call.reads <= 1 /\ call.writes <= 1
    /\ call.failure # "none" => (call.pc = "done" /\ call.result = ErrorResult)

\* C19, amended: the lookup, the read and the write are made at most once;
\* the token refresh is made at most once by each of the two validity
\* checks of a call, the second time only after the first refresh
\* resolved; a rejected refresh is not made again; and when a remote call
\* is rejected the call is over and rejected.
C19_NoRetry ==
  \A c \in CallIds :
    LET call == calls[c] IN
    /\ call.finds <= 1 /\ call.reads <= 1 /\ call.writes <= 1
    /\ call.refreshes <= 2
    /\ call.refreshes = 2 => call.refreshed >= 1
    /\ call.failure = "refresh" => call.refreshes = call.refreshed + 1
    /\ call.failure # "none" => (call.pc = "done" /\ call.result = ErrorResult)

\* The write of a put was rejected after both validity checks had refreshed
\* the token: the put is rejected and no file was written.
C19_Witness ==
  \E c \in CallIds :
    /\ calls[c].pc = "done" /\ calls[c].op = "put"
    /\ calls[c].failure = "write" /\ calls[c].result = ErrorResult
    /\ calls[c].refreshes = 2 /\ calls[c].finds = 1 /\ calls[c].writes = 1
    /\ files = {}

\* C20: the file name of a call's key is the key's entry in the table when
\* it has one, and otherwise the key followed by ".json".
C20_FileNameMapping ==
  \A c \in CallIds :
    calls[c].op # "none" =>
      calls[c].fileName =
        IF calls[c].key \in DOMAIN FILE_NAME_MAP
        THEN FILE_NAME_MAP[calls[c].key]
        ELSE <<calls[c].key, ".json">>

\* C21: isTokenExpired(expiresAt), as a call of get or put evaluates it on
\* entry, is true when no expiry is stored and when fewer than 5 minutes
\* remain before expiresAt, and false otherwise: true for null, false for
\* now + 10 min, true for now + 4 min, false for exactly now + 5 min.
C21_IsTokenExpired ==
  \A c \in CallIds :
    calls[c].op # "none" =>
      LET call == calls[c]
          minute == 60 * 1000
      IN /\ call.expiredAtStart =
              (\/ call.remainingAtStart = None
               \/ \E left \in call.remainingAtStart : left < 5 * minute)
         /\ call.remainingAtStart = None => call.expiredAtStart
         /\ call.remainingAtStart = Some(10 * minute) => ~call.expiredAtStart
         /\ call.remainingAtStart = Some(4 * minute) => call.expiredAtStart
         /\ call.remainingAtStart = Some(5 * minute) => ~call.expiredAtStart

\* A call that began with exactly five minutes left found the token valid
\* and finished without a refresh.
C21_Witness ==
  \E c \in CallIds :
    /\ calls[c].pc = "done" /\ calls[c].result.kind = "value"
    /\ calls[c].remainingAtStart = Some(5 * 60 * 1000)
    /\ ~calls[c].expiredAtStart
    /\ calls[c].refreshes = 0

\* C25: at every completion of the sync in flight, by success or by
\* failure, during which a rerun was requested, one more sync is scheduled
\* a debounce delay later, none is started in that step, and the request
\* is consumed.
C25_RerunScheduled ==
  [][(pendingAfterSyncRef /\ (SyncSucceeds \/ \E f \in Failures : SyncFails(f))) =>
       /\ NumArmed("rerun")' = NumArmed("rerun") + 1
       /\ \E t \in Armed("rerun")' : t.due = now + DebounceMs
       /\ onSyncCalls' = onSyncCalls
       /\ inFlight' = 0
       /\ ~pendingAfterSyncRef']_vars

\* C26: cancelPendingSync() or forceSync() called while a sync is in flight
\* does not abort it: the call of onSync stays in flight and marked as
\* such, no other is started, and status, error and lastSyncTime stay as
\* they are until it completes.
C26_CooperativeCancel ==
  [][(inFlight > 0 /\ isSyncingRef /\ (CancelPendingSync \/ ForceSync)) =>
       /\ inFlight' = inFlight
       /\ isSyncingRef'
       /\ onSyncCalls' = onSyncCalls
       /\ UNCHANGED <<status, error, lastSyncTime>>]_vars

\* forceSync() was called during the first sync, which is still in flight.
C26_Witness ==
  /\ inFlight = 1 /\ isSyncingRef /\ status = "syncing"
  /\ pendingAfterSyncRef /\ onSyncCalls = 1
  /\ debounceTimerRef = None /\ timers = EmptyBag

\* C30: a change made during a sync is not reported as synced.  Once
\* triggerSync() was called while a sync was in flight, pendingChanges is
\* true until a sync that started after it succeeds: it is still true
\* after the sync that was in flight succeeds.
C30_ChangeDuringSync == flightChanged => pendingChanges

\* C22: checkFolderAccess never raises.  It returns false when its request
\* fails (a response that is not ok, a network failure, a body that cannot
\* be parsed), and true only when the request succeeds and the item is a
\* folder.
C22_CheckFolderAccess ==
  \A c \in CallIds :
    (calls[c].pc = "done" /\ calls[c].op = "checkFolderAccess") =>
      /\ calls[c].result.kind \in {"true", "false"}
      /\ (calls[c].result.kind = "true") =
           (calls[c].failure = "none" /\ calls[c].response = FolderMimeType)

\* The body of the response could not be parsed and checkFolderAccess
\* returned false.
C22_Witness ==
  \E c \in CallIds :
    /\ calls[c].pc = "done" /\ calls[c].op = "checkFolderAccess"
    /\ calls[c].failure = "body"
    /\ calls[c].result.kind = "false"

\* C24: getLastModified(key) never raises.  It returns null when the key
\* has no remote file and when the token refresh or the lookup fails, and
\* otherwise the modification time recorded for the key's file.
C24_GetLastModified ==
  \A c \in CallIds :
    (calls[c].pc = "done" /\ calls[c].op = "getLastModified") =>
      /\ calls[c].result.kind # "error"
      /\ (calls[c].absentAtStart \/ calls[c].failure # "none") =>
           calls[c].result = NullResult
      /\ (~calls[c].absentAtStart /\ calls[c].failure = "none") =>
           /\ calls[c].result = DateResult
           /\ \E f \in files :
                /\ calls[c].fileId = Some(f.id)
                /\ calls[c].date = Some(f.modifiedTime)

\* C27: no second file of a name is created in a folder; the first
\* successful put of a key with no remote file creates one file, a put of
\* a key with a recorded id writes the file of that id and creates none;
\* and after every successful put the cache entry of the key has the id of
\* the file just written and the time of the write.
C27_PutCreatesThenUpdates ==
  [][/\ \A f, g \in files' :
          (f.name = g.name /\ f.folderId = g.folderId) => f = g
     /\ \A c \in CallIds :
          WriteResolves(c) =>
            LET key == calls[c].key IN
            /\ \E f \in files' :
                 /\ f.content = JsonStringify(calls[c].value)
                 /\ f.modifiedTime = now
                 /\ fileCache'[key] =
                      Some([fileId |-> f.id, modifiedTime |-> now])
            /\ calls[c].absentAtStart =>
                 Cardinality(files') = Cardinality(files) + 1
            /\ \A e \in fileCache[key] :
                 /\ Cardinality(files') = Cardinality(files)
                 /\ \E e2 \in fileCache'[key] : e2.fileId = e.fileId]_vars

\* C28: after clearCache(), and after updateSettings() with another folder
\* id, the cache has no entry, and no call reads or writes a file by an id
\* that was recorded for another folder than the current one.
C28_CacheInvalidated ==
  [][/\ \A c \in CallIds :
          calls'[c].pc \in {"read", "write"} =>
            \A f \in files' :
              calls'[c].fileId = Some(f.id) =>
                f.folderId = settings'.googleDriveFolderId
     /\ (\/ ClearCache
         \/ \E s \in UpdatedSettings :
              /\ UpdateSettings(s)
              /\ s.googleDriveFolderId # settings.googleDriveFolderId) =>
          \A k \in Keys : fileCache'[k] = None]_vars

\* C29: when refreshToken() resolves, the settings take the new token and
\* expiry, the client has the new token, and the callback, if there is
\* one, is called once with the updated settings; when it rejects, the
\* settings and the client stay as they are and the callback is not
\* called.
C29_TokenRefresh ==
  [][\A c \in CallIds :
       /\ (\E expiresIn \in ExpiresIn : RefreshResolves(c, expiresIn)) =>
            /\ settings'.googleDriveAccessToken = RefreshedToken
            /\ \E expiresIn \in ExpiresIn :
                 settings'.googleDriveTokenExpiry = Some(now + expiresIn * 1000)
            /\ client' = Some(RefreshedToken)
            /\ IF onTokenRefresh
               THEN /\ calls'[c].notified = calls[c].notified + 1
                    /\ calls'[c].persisted = Some(settings')
               ELSE /\ calls'[c].notified = 0
                    /\ calls'[c].persisted = None
       /\ RefreshRejects(c) =>
            /\ UNCHANGED <<settings, client>>
            /\ calls'[c].notified = calls[c].notified
            /\ calls'[c].persisted = calls[c].persisted]_vars

\* A put refreshed the token once, the callback was called with the
\* settings as they now are, and the put resolved.
C29_Witness ==
  \E c \in CallIds :
    /\ calls[c].pc = "done" /\ calls[c].op = "put"
    /\ calls[c].result.kind = "value"
    /\ calls[c].refreshed = 1 /\ calls[c].notified = 1
    /\ calls[c].persisted = Some(settings)
    /\ settings.googleDriveAccessToken = RefreshedToken
    /\ client = Some(RefreshedToken)

\* C23: signOut(token) is best-effort and never fails.  Without the library
\* (isGisLoaded false) it completes without a call of revoke; a revoke that
\* reports a failure resolves it all the same; it never rejects; and every
\* run of handleDisconnect that began goes on to call onDisconnect(), once.
C23_SignOutBestEffort ==
  /\ [](\A d \in DisconnectIds :
          LET run == disconnects[d] IN
          /\ run.signOut \in {"none", "skipped", "resolved"}
          /\ (run.pc # "idle" /\ Truthy(run.token) /\ ~run.libraryAtStart) =>
               (~run.revoked /\ run.signOut = "skipped")
          /\ run.pc = "done" => run.notified = 1
          /\ run.pc \in {"idle", "revoking", "done"})
  /\ \A d \in DisconnectIds :
       (disconnects[d].pc = "revoking") ~> (disconnects[d].pc = "done")

\* A revoke that reported a failure, after which onDisconnect() was called.
C23_Witness ==
  \E d \in DisconnectIds :
    /\ disconnects[d].pc = "done"
    /\ disconnects[d].revoked
    /\ disconnects[d].response = "failed"
    /\ disconnects[d].signOut = "resolved"
    /\ disconnects[d].notified = 1
    /\ onDisconnectCalls >= 1

\* C31: while the coordinator is offline its status is offline; a sync that
\* was in flight when connectivity was lost does not move the status to
\* synced or error before connectivity returns.
C31_OfflineStatus == ~isOnline => status = "offline"

\* C34 as stated: a status of synced means that a sync succeeded in this
\* session: the time of the last sync is set and no error is recorded.
C34_SyncedMeansSucceeded_Original ==
  status = "synced" => (lastSyncTime # None /\ error = Null)

\* C34: the status becomes synced only when a sync succeeds, which records
\* the time of the sync and clears the error, or when connectivity returns
\* to an offline coordinator with no changes pending, which leaves the time
\* of the last sync and the error as they were.
C34_SyncedMeansSucceeded ==
  [][(status' = "synced" /\ status # "synced") =>
       \/ /\ inFlight' = inFlight - 1
          /\ lastSyncTime' = Some(now)
          /\ error' = Null
       \/ /\ ~isOnline /\ isOnline'
          /\ status = "offline"
          /\ ~pendingChanges
          /\ UNCHANGED <<lastSyncTime, error>>]_vars

\* Connectivity returned after a failed sync whose changes were given up:
\* the status is synced and the error of that sync is still recorded.
C34_Witness ==
  /\ status = "synced"
  /\ isOnline
  /\ error # Null
  /\ onSyncCalls >= 1

\* C35: a status of synced is never reported while changes are pending,
\* whatever the sequence of triggerSync(), forceSync(), cancelPendingSync(),
\* connectivity events and completions of the sync.
C35_SyncedNotPending == status = "synced" => ~pendingChanges

\* A sync that triggerSync() caused has succeeded: synced, nothing pending.
C35_Witness ==
  /\ status = "synced"
  /\ ~pendingChanges
  /\ debounceTimerRef # None
  /\ lastSyncTime # None

\* C39: while the coordinator is disabled, triggerSync() and forceSync()
\* change nothing: status, pendingChanges, error and lastSyncTime stay as
\* they are, no timer is armed or cleared, and onSync is not called.
C39_DisabledNoOp ==
  [][(~enabled /\ (TriggerSync \/ ForceSync)) =>
       UNCHANGED <<status, pendingChanges, error, lastSyncTime, timers,
                   debounceTimerRef, inFlight, onSyncCalls,
                   pendingAfterSyncRef>>]_vars

\* The coordinator was disabled after a sync succeeded, with a debounce
\* timer of a later triggerSync() still armed.
C39_Witness ==
  /\ ~enabled
  /\ lastSyncTime # None
  /\ pendingChanges
  /\ debounceTimerRef # None
  /\ timers # EmptyBag

\* C32: no spurious sync.  Every call of onSync that a timer starts follows
\* a triggerSync() or a forceSync() made since the call of onSync before
\* it; a rerun request left over from an earlier sync causes none.
C32_NoSpuriousSync ==
  [][((\E t \in BagToSet(timers) : FireDebounce(t) \/ FireRerun(t))
        /\ Started) => requested]_vars

\* C33: cancelPendingSync() cancels every sync that is scheduled and not
\* started, a rerun scheduled after a completed sync included: called with
\* no sync in flight, it leaves no debounce timer and no rerun timer armed,
\* so that no sync starts before the next request.
C33_CancelsEveryScheduledSync ==
  [][(CancelPendingSync /\ inFlight = 0) =>
       (NumArmed("debounce")' = 0 /\ NumArmed("rerun")' = 0)]_vars

\* C38: signOut(token) calls revoke whenever the identity library is in the
\* page at the time of the call, whether or not signIn(), refreshToken() or
\* waitForLibrary() ran before, and skips it only when the library is not.
C38_RevokeWhenAvailable ==
  \A d \in DisconnectIds :
    (disconnects[d].pc # "idle" /\ Truthy(disconnects[d].token)) =>
      disconnects[d].revoked = disconnects[d].libraryAtStart

\* C37: whenever the drive service has a client, the bearer token of the
\* client is the googleDriveAccessToken of the service's settings, after
\* construction, token refreshes and calls of updateSettings(), one with no
\* access token included.
C37_ClientTokenIsSettingsToken ==
  (service = "drive" /\ client # None) =>
    client = Some(settings.googleDriveAccessToken)

\* C36: put calls for one key that overlap at their awaits, on a service
\* with no remote file and no cache entry for the key, leave at most one
\* remote file of the key's name in the folder, and once they have all
\* completed the cache entry of the key is the file that holds the value
\* of the put that completed last.
C36_OverlappingPuts ==
  \A key \in TokenKeys :
    /\ Cardinality(Matches(GetFileName(key), settings.googleDriveFolderId)) <= 1
    /\ Quiet =>
         \A p \in lastPut[key] :
           \E e \in fileCache[key], f \in files :
             /\ e.fileId = p.fileId
             /\ f.id = e.fileId
             /\ f.content = JsonStringify(p.value)

====
